---- MODULE Spec2Model ----
(***************************************************************************)
(* A model of the slice writer of the `init` crate: SliceWriter            *)
(* (src/src/slice_writer.rs), the UninitSliceIter cursor it drives         *)
(* (src/src/ptr.rs) and the bulk slice initializers Repeat and             *)
(* InitFromIter (src/src/slice.rs).                                        *)
(*                                                                         *)
(* Memory is a map from addresses to the number of live values stored      *)
(* there.  A zero-sized element type puts every element of the slice at    *)
(* the same address, so an address may hold several live values.  The heap *)
(* also counts, per address, the successful constructions and the          *)
(* destructor invocations, which is what the rollback properties speak     *)
(* about.                                                                  *)
(*                                                                         *)
(* Further specifications model the operations that do not go through a    *)
(* slice writer: SpecCopy (CopyFromSlice, write_array, write_slice),       *)
(* SpecOwn (the life of an Init handle), SpecZero (is_zeroed against the   *)
(* bytes an initializer writes) and SpecEmplace (emplace_with).            *)
(***************************************************************************)
EXTENDS Integers, Sequences, FiniteSets, TLC

\* Largest slice length explored.
MaxN == 3
\* Element values and error payloads range over 1..MaxVal.
MaxVal == 2
\* Largest number of calls a client makes on one writer.
MaxCalls == 5
\* size_of::<T>() of a non-zero-sized element type, in bytes.
TSize == 2
\* Address of the first element of the region.
Base == 4

VARIABLES
    IS_ZST,     \* UninitSliceIter::IS_ZST: size_of::<T>() == 0
    mode,       \* who drives the writer: "manual", "repeat" or "from_iter"
    writer,     \* the SliceWriter: [ptr, iter, init]
    wstate,     \* "live", "finished", "finished_unchecked" or "dropped"
    handle,     \* the Init<[T]> returned by finish: "none", "live", "dropped"
    heap,       \* memory and destructor bookkeeping
    ret,        \* what the last call returned
    lastOp,     \* name of the last call
    lastArgs,   \* arguments of the last call
    calls,      \* number of calls made so far
    failed,     \* some element initializer has returned Err or panicked
    wdrops,     \* number of times SliceWriter::drop has run
    repeat_init,\* Repeat { init }: the recipe and what its clones do
    source,     \* InitFromIter { iter }: the items the iterator will yield
    drawn,      \* number of items drawn from the iterator
    loopIx,     \* iterations of the bulk initializer's loop completed
    loopN,      \* the bound of that loop, writer.remaining_len() at entry
    clones,     \* number of calls of Clone::clone on the Repeat recipe
    copy,       \* a call of CopyFromSlice, write_array or write_slice
    own,        \* an Init handle: who owns the value and what was destructed
    zero,       \* a layout provider's is_zeroed answer and the bytes written
    emplace,    \* a call of emplace_with: allocations and what it returned
    siter,      \* a slice iterator and the handles it has yielded
    rec,        \* a struct being initialized field by field
    selfref,    \* a SelfRef value and the calls made on it
    vec,        \* a Vec being emplaced into
    tail        \* a SliceTail: its arguments, layout and stored length

\* The state of the slice writer and of who drives it.
wvars == <<IS_ZST, mode, writer, wstate, handle, heap, ret, lastOp, lastArgs,
           calls, failed, wdrops, repeat_init, source, drawn, loopIx, loopN,
           clones>>

\* The state of the operations that do not go through a slice writer.
rest == <<siter, rec, selfref, vec, tail>>

ext == <<copy, own, zero, emplace, rest>>

vars == <<wvars, ext>>

\* A component that takes no part in the behaviour under study.
Idle == [op |-> "idle"]

RestIdle ==
    /\ siter = Idle
    /\ rec = Idle
    /\ selfref = Idle
    /\ vec = Idle
    /\ tail = Idle

----------------------------------------------------------------------------
\* Addresses, values and arguments

SizeOfT == IF IS_ZST THEN 0 ELSE TSize

Addrs == Base .. (Base + (MaxN + 1) * TSize)

\* A zero-sized type has a single value.
ValsT == IF IS_ZST THEN {0} ELSE 1..MaxVal

Errs == 1..MaxVal

NoArgs == [out |-> "none", val |-> 0, e |-> 0]

\* An element recipe: it writes `val`, returns Err(e), or panics.
ArgsSet ==
    {[out |-> "ok", val |-> v, e |-> 0] : v \in ValsT}
    \cup {[out |-> "err", val |-> 0, e |-> x] : x \in Errs}
    \cup {[out |-> "panic", val |-> 0, e |-> 0]}

\* ptr.add(i) on a *mut T
ElemAddr(base, i) == base + i * SizeOfT

\* How many of the elements 0..n-1 of the slice at `base` live at address a.
CountAt(a, base, n) == Cardinality({i \in 0..(n - 1) : ElemAddr(base, i) = a})

EmptyHeap ==
    [live  |-> [a \in Addrs |-> 0],
     val   |-> [a \in Addrs |-> 0],
     ctors |-> [a \in Addrs |-> 0],
     dtors |-> [a \in Addrs |-> 0],
     ub    |-> FALSE]

\* Uninit::write: move the value into the slot.
Uninit_write(h, a, v) ==
    [h EXCEPT !.live[a] = @ + 1, !.val[a] = v, !.ctors[a] = @ + 1]

\* drop_in_place on the slice of n elements at base: one destructor call per
\* element; dtors counts the calls.  Calling it on an element that holds no
\* live value is undefined behaviour, recorded in ub.
drop_in_place(h, base, n) ==
    [h EXCEPT
        !.dtors = [a \in Addrs |-> @[a] + CountAt(a, base, n)],
        !.live  = [a \in Addrs |->
                     IF @[a] >= CountAt(a, base, n)
                     THEN @[a] - CountAt(a, base, n) ELSE 0],
        !.ub    = @ \/ (\E a \in Addrs : h.live[a] < CountAt(a, base, n))]

\* What memory may look like after drop_in_place: once a destructor has run
\* on a slot without a live value, the content of any slot may have been
\* clobbered.
UndefinedOutcomes(h) ==
    IF h.ub
    THEN {h} \cup {[h EXCEPT !.live[a] = 0, !.val[a] = 0] : a \in Addrs}
    ELSE {h}

\* Init::take_ownership: the handle gives up the destructor obligation, so
\* nothing is destructed.
take_ownership(h, a) == h

\* Uninit::try_init, Ctor::try_init: run the recipe on the slot.
Uninit_try_init(h, a, args) ==
    [heap |-> IF args.out = "ok" THEN Uninit_write(h, a, args.val) ELSE h,
     r    |-> args.out,
     e    |-> args.e]

----------------------------------------------------------------------------
\* UninitSliceIter

UninitSliceIter_new(p) ==
    [ptr |-> p.addr,
     end_or_len |-> IF IS_ZST THEN p.len ELSE ElemAddr(p.addr, p.len)]

len(it) ==
    IF IS_ZST THEN it.end_or_len ELSE (it.end_or_len - it.ptr) \div SizeOfT

is_empty(it) ==
    IF IS_ZST THEN it.end_or_len = 0 ELSE it.ptr = it.end_or_len

\* next_unchecked returning the advanced pointer instead of the old one
next_unchecked_advanced(it) ==
    IF IS_ZST
    THEN [iter |-> [it EXCEPT !.end_or_len = @ - 1], some |-> TRUE, item |-> it.ptr]
    ELSE [iter |-> [it EXCEPT !.ptr = ElemAddr(@, 1)], some |-> TRUE,
          item |-> ElemAddr(it.ptr, 1)]

next_unchecked(it) ==
    IF IS_ZST
    THEN [iter |-> [it EXCEPT !.end_or_len = @ - 1], some |-> TRUE, item |-> it.ptr]
    ELSE [iter |-> [it EXCEPT !.ptr = ElemAddr(@, 1)], some |-> TRUE, item |-> it.ptr]

reset(it) ==
    IF IS_ZST THEN [it EXCEPT !.end_or_len = 0]
    ELSE [it EXCEPT !.end_or_len = it.ptr]

reset_if(it, cond) == IF cond THEN reset(it) ELSE it

\* next without the emptiness check
next_no_check(it) ==
    IF IS_ZST
    THEN [iter |-> [it EXCEPT !.end_or_len = @ - 1], some |-> TRUE, item |-> it.ptr]
    ELSE [iter |-> [it EXCEPT !.ptr = ElemAddr(@, 1)], some |-> TRUE, item |-> it.ptr]

next(it) ==
    IF is_empty(it) THEN [iter |-> it, some |-> FALSE, item |-> 0]
    ELSE next_unchecked(it)

----------------------------------------------------------------------------
\* SliceWriter

SliceWriter_new(p) == [ptr |-> p, iter |-> UninitSliceIter_new(p), init |-> 0]

remaining_len(w) == len(w.iter)

\* is_initialized deciding by the cursor instead of the count
is_initialized_by_cursor(w) == len(w.iter) = 0

is_initialized(w) == w.init = w.ptr.len

\* drop destructing the whole slice instead of the initialized prefix
SliceWriter_drop_whole(w, h) == drop_in_place(h, w.ptr.addr, w.ptr.len)

\* SliceWriter::drop
SliceWriter_drop(w, h) == drop_in_place(h, w.ptr.addr, w.init)

\* Init::drop destructing the first element only, as drop_in_place on a
\* pointer cast to the element type would
Init_drop_first_element(p, h) ==
    drop_in_place(h, p.addr, IF p.len > 0 THEN 1 ELSE 0)

\* Init::<[T]>::drop
Init_drop(p, h) == drop_in_place(h, p.addr, p.len)

\* SliceWriter::try_init.  Kinds: "NoSlot" is Err(args), "Ok" is Ok(Ok(())),
\* "Err" is Ok(Err(e)).  A panic of the recipe leaves the function before
\* init and iter are updated; the cursor has already moved past the slot.
try_init(w, h, args) ==
    LET nx == next(w.iter)
    IN  IF nx.some
        THEN LET c == Uninit_try_init(h, nx.item, args)
                 w1 == [w EXCEPT !.iter = nx.iter]
             IN  IF c.r = "panic"
                 THEN [w |-> w1, heap |-> c.heap,
                       r |-> [kind |-> "Panic", args |-> NoArgs, e |-> 0]]
                 ELSE [w |-> [w1 EXCEPT
                                !.init = @ + (IF c.r = "ok" THEN 1 ELSE 0),
                                !.iter = reset_if(@, c.r = "err")],
                       heap |-> IF c.r = "ok"
                                THEN take_ownership(c.heap, nx.item)
                                ELSE c.heap,
                       r |-> IF c.r = "ok"
                             THEN [kind |-> "Ok", args |-> NoArgs, e |-> 0]
                             ELSE [kind |-> "Err", args |-> NoArgs, e |-> c.e]]
        ELSE [w |-> w, heap |-> h,
              r |-> [kind |-> "NoSlot", args |-> args, e |-> 0]]

\* try_init_unchecked counting the element whatever the recipe returned
try_init_unchecked_count_all(w, h, args) ==
    LET nx == next_unchecked(w.iter)
        c == Uninit_try_init(h, nx.item, args)
        w1 == [w EXCEPT !.iter = nx.iter]
    IN  IF c.r = "panic"
        THEN [w |-> w1, heap |-> c.heap,
              r |-> [kind |-> "Panic", args |-> NoArgs, e |-> 0]]
        ELSE [w |-> [w1 EXCEPT
                       !.init = @ + 1,
                       !.iter = reset_if(@, c.r = "err")],
              heap |-> IF c.r = "ok"
                       THEN take_ownership(c.heap, nx.item)
                       ELSE c.heap,
              r |-> IF c.r = "ok"
                    THEN [kind |-> "Ok", args |-> NoArgs, e |-> 0]
                    ELSE [kind |-> "Err", args |-> NoArgs, e |-> c.e]]

\* SliceWriter::try_init_unchecked.  Kinds: "Ok" is Ok(()), "Err" is Err(e).
try_init_unchecked(w, h, args) ==
    LET nx == next_unchecked(w.iter)
        c == Uninit_try_init(h, nx.item, args)
        w1 == [w EXCEPT !.iter = nx.iter]
    IN  IF c.r = "panic"
        THEN [w |-> w1, heap |-> c.heap,
              r |-> [kind |-> "Panic", args |-> NoArgs, e |-> 0]]
        ELSE [w |-> [w1 EXCEPT
                       !.init = @ + (IF c.r = "ok" THEN 1 ELSE 0),
                       !.iter = reset_if(@, c.r = "err")],
              heap |-> IF c.r = "ok"
                       THEN take_ownership(c.heap, nx.item)
                       ELSE c.heap,
              r |-> IF c.r = "ok"
                    THEN [kind |-> "Ok", args |-> NoArgs, e |-> 0]
                    ELSE [kind |-> "Err", args |-> NoArgs, e |-> c.e]]

\* finish without ManuallyDrop: the writer is dropped when finish returns
finish_without_manually_drop(w, h) ==
    IF is_initialized(w)
    THEN [kind |-> "Ok", heap |-> SliceWriter_drop(w, h), wdrop |-> 1]
    ELSE [kind |-> "Panic", heap |-> SliceWriter_drop(w, h), wdrop |-> 1]

\* SliceWriter::finish.  The assertion fails while the function still owns
\* the writer, so the unwinding drops it; on success the writer is wrapped
\* in ManuallyDrop and its ptr becomes the Init<[T]>.
finish(w, h) ==
    IF is_initialized(w)
    THEN [kind |-> "Ok", heap |-> h, wdrop |-> 0]
    ELSE [kind |-> "Panic", heap |-> SliceWriter_drop(w, h), wdrop |-> 1]

\* SliceWriter::finish_unchecked.  debug_assert! checks is_initialized only
\* in a build with debug assertions, and its failure unwinds as that of
\* finish does; without them the writer is wrapped in ManuallyDrop and its ptr
\* becomes the Init<[T]> whatever init is.
finish_unchecked(w, h, debug_assertions) ==
    IF debug_assertions /\ ~is_initialized(w)
    THEN [kind |-> "Panic", heap |-> SliceWriter_drop(w, h), wdrop |-> 1]
    ELSE [kind |-> "Ok", heap |-> h, wdrop |-> 0]

----------------------------------------------------------------------------
\* Initial states

Regions == {[addr |-> Base, len |-> n] : n \in 0..MaxN}

SeqsUpTo(S, n) == UNION {[1..k -> S] : k \in 0..n}

NoRepeat == [val |-> 0, failAt |-> 0, failWith |-> NoArgs]

\* A Repeat recipe writes val; its failAt-th clone (if any) fails instead.
RepeatSet ==
    {[val |-> v, failAt |-> 0, failWith |-> NoArgs] : v \in ValsT}
    \cup {[val |-> v, failAt |-> k, failWith |-> f] :
            v \in ValsT, k \in 1..MaxN,
            f \in {a \in ArgsSet : a.out # "ok"}}

Init ==
    /\ IS_ZST \in BOOLEAN
    /\ mode \in {"manual", "repeat", "from_iter"}
    /\ \E p \in Regions :
         /\ writer = SliceWriter_new(p)
         /\ loopN = remaining_len(SliceWriter_new(p))
    /\ wstate = "live"
    /\ handle = "none"
    /\ heap = EmptyHeap
    /\ ret = [kind |-> "none", args |-> NoArgs, e |-> 0]
    /\ lastOp = "none"
    /\ lastArgs = NoArgs
    /\ calls = 0
    /\ failed = FALSE
    /\ wdrops = 0
    /\ repeat_init \in (IF mode = "repeat" THEN RepeatSet ELSE {NoRepeat})
    /\ source \in (IF mode = "from_iter" THEN SeqsUpTo(ArgsSet, MaxN + 1) ELSE {<<>>})
    /\ drawn = 0
    /\ loopIx = 0
    /\ clones = 0
    /\ copy = Idle
    /\ own = Idle
    /\ zero = Idle
    /\ emplace = Idle
    /\ RestIdle

----------------------------------------------------------------------------
\* A client that drives the writer by hand

Result(kind, e) == [kind |-> kind, args |-> NoArgs, e |-> e]

\* One call of an element initializer t through the writer.  A panic either
\* unwinds through the owner of the writer, which drops it, or is caught by a
\* caller that keeps the writer.
AfterElement(t, caught) ==
    /\ ret' = t.r
    /\ failed' = (failed \/ t.r.kind \in {"Err", "Panic"})
    /\ writer' = t.w
    /\ IF t.r.kind = "Panic" /\ ~caught
       THEN /\ wstate' = "dropped"
            /\ heap' \in UndefinedOutcomes(SliceWriter_drop(t.w, t.heap))
            /\ wdrops' = wdrops + 1
       ELSE /\ wstate' = wstate
            /\ heap' = t.heap
            /\ wdrops' = wdrops

TryInit ==
    /\ mode = "manual" /\ wstate = "live" /\ calls < MaxCalls
    /\ \E args \in ArgsSet, caught \in BOOLEAN :
         /\ (args.out # "panic") => caught
         /\ AfterElement(try_init(writer, heap, args), caught)
         /\ lastArgs' = args
    /\ lastOp' = "try_init"
    /\ calls' = calls + 1
    /\ UNCHANGED <<ext, clones, IS_ZST, mode, handle, repeat_init, source, drawn, loopIx, loopN>>

TryInitUnchecked ==
    /\ mode = "manual" /\ wstate = "live" /\ calls < MaxCalls
    /\ remaining_len(writer) # 0
    /\ \E args \in ArgsSet, caught \in BOOLEAN :
         /\ (args.out # "panic") => caught
         /\ AfterElement(try_init_unchecked(writer, heap, args), caught)
         /\ lastArgs' = args
    /\ lastOp' = "try_init_unchecked"
    /\ calls' = calls + 1
    /\ UNCHANGED <<ext, clones, IS_ZST, mode, handle, repeat_init, source, drawn, loopIx, loopN>>

\* writer.finish() as the last statement of its caller.
AfterFinish(f) ==
    /\ heap' \in UndefinedOutcomes(f.heap)
    /\ wdrops' = wdrops + f.wdrop
    /\ wstate' = IF f.wdrop > 0 THEN "dropped" ELSE "finished"
    /\ handle' = IF f.kind = "Ok" THEN "live" ELSE "none"
    /\ ret' = Result(f.kind, 0)

Finish ==
    /\ mode = "manual" /\ wstate = "live" /\ calls < MaxCalls
    /\ AfterFinish(finish(writer, heap))
    /\ lastOp' = "finish"
    /\ lastArgs' = NoArgs
    /\ calls' = calls + 1
    /\ UNCHANGED <<ext, clones, IS_ZST, mode, writer, failed, repeat_init, source, drawn,
                   loopIx, loopN>>

\* unsafe { writer.finish_unchecked() } as the last statement of its caller,
\* in a build with or without debug assertions.
FinishUnchecked ==
    /\ mode = "manual" /\ wstate = "live" /\ calls < MaxCalls
    /\ \E debug_assertions \in BOOLEAN :
         LET f == finish_unchecked(writer, heap, debug_assertions)
         IN  /\ heap' \in UndefinedOutcomes(f.heap)
             /\ wdrops' = wdrops + f.wdrop
             /\ wstate' = IF f.wdrop > 0 THEN "dropped"
                          ELSE "finished_unchecked"
             /\ handle' = IF f.kind = "Ok" THEN "live" ELSE "none"
             /\ ret' = Result(f.kind, 0)
    /\ lastOp' = "finish_unchecked"
    /\ lastArgs' = NoArgs
    /\ calls' = calls + 1
    /\ UNCHANGED <<ext, clones, IS_ZST, mode, writer, failed, repeat_init, source, drawn,
                   loopIx, loopN>>

\* The writer goes out of scope without finish().
DropWriter ==
    /\ mode = "manual" /\ wstate = "live"
    /\ wstate' = "dropped"
    /\ heap' \in UndefinedOutcomes(SliceWriter_drop(writer, heap))
    /\ wdrops' = wdrops + 1
    /\ lastOp' = "drop"
    /\ lastArgs' = NoArgs
    /\ ret' = Result("none", 0)
    /\ UNCHANGED <<ext, clones, IS_ZST, mode, writer, handle, calls, failed, repeat_init,
                   source, drawn, loopIx, loopN>>

\* The Init<[T]> produced by finish() goes out of scope.
DropHandle ==
    /\ handle = "live"
    /\ handle' = "dropped"
    /\ heap' \in UndefinedOutcomes(Init_drop(writer.ptr, heap))
    /\ lastOp' = "drop_init"
    /\ lastArgs' = NoArgs
    /\ UNCHANGED <<ext, clones, IS_ZST, mode, writer, wstate, ret, calls, failed, wdrops,
                   repeat_init, source, drawn, loopIx, loopN>>

----------------------------------------------------------------------------
\* Repeat::try_init_into and InitFromIter::try_init_into, one loop iteration
\* per step.  The writer is a local of the function: `?`, `return` and a
\* panic all drop it before the caller sees the outcome.

\* self.init.clone() for the k-th element
clone(rep, k) ==
    IF rep.failAt = k THEN rep.failWith
    ELSE [out |-> "ok", val |-> rep.val, e |-> 0]

AfterBulkElement(t) ==
    /\ writer' = t.w
    /\ failed' = (failed \/ t.r.kind \in {"Err", "Panic"})
    /\ IF t.r.kind = "Ok"
       THEN /\ heap' = t.heap
            /\ loopIx' = loopIx + 1
            /\ UNCHANGED <<wstate, wdrops, ret>>
       ELSE /\ heap' \in UndefinedOutcomes(SliceWriter_drop(t.w, t.heap))
            /\ wstate' = "dropped"
            /\ wdrops' = wdrops + 1
            /\ ret' = t.r
            /\ UNCHANGED loopIx

RepeatStep ==
    /\ mode = "repeat" /\ wstate = "live" /\ loopIx < loopN
    /\ LET args == clone(repeat_init, loopIx + 1)
       IN  /\ AfterBulkElement(try_init_unchecked(writer, heap, args))
           /\ lastArgs' = args
    /\ clones' = clones + 1
    /\ lastOp' = "repeat"
    /\ UNCHANGED <<ext, IS_ZST, mode, handle, calls, repeat_init, source, drawn, loopN>>

RepeatReturn ==
    /\ mode = "repeat" /\ wstate = "live" /\ loopIx = loopN
    /\ AfterFinish(finish(writer, heap))
    /\ lastOp' = "repeat"
    /\ lastArgs' = NoArgs
    /\ UNCHANGED <<ext, clones, IS_ZST, mode, writer, calls, failed, repeat_init, source,
                   drawn, loopIx, loopN>>

\* InitFromIter::try_init_into forgetting the writer when the iterator runs
\* dry
FromIterStep_forget_writer ==
    /\ mode = "from_iter" /\ wstate = "live" /\ loopIx < loopN
    /\ IF drawn < Len(source)
       THEN /\ drawn' = drawn + 1
            /\ AfterBulkElement(try_init_unchecked(writer, heap, source[drawn + 1]))
            /\ lastArgs' = source[drawn + 1]
       ELSE /\ ret' = Result("NotEnoughItems", 0)
            /\ wstate' = "dropped"
            /\ lastArgs' = NoArgs
            /\ UNCHANGED <<writer, failed, drawn, loopIx, heap, wdrops>>
    /\ lastOp' = "from_iter"
    /\ UNCHANGED <<ext, clones, IS_ZST, mode, handle, calls, repeat_init, source, loopN>>

\* InitFromIter::try_init_into asking the iterator once more after the last
\* element
FromIterStep_draw_past_end ==
    /\ mode = "from_iter" /\ wstate = "live" /\ loopIx < loopN
    /\ IF drawn < Len(source)
       THEN /\ drawn' = (IF loopIx + 1 = loopN /\ drawn + 1 < Len(source)
                         THEN drawn + 2 ELSE drawn + 1)
            /\ AfterBulkElement(try_init_unchecked(writer, heap, source[drawn + 1]))
            /\ lastArgs' = source[drawn + 1]
       ELSE /\ ret' = Result("NotEnoughItems", 0)
            /\ heap' \in UndefinedOutcomes(SliceWriter_drop(writer, heap))
            /\ wstate' = "dropped"
            /\ wdrops' = wdrops + 1
            /\ lastArgs' = NoArgs
            /\ UNCHANGED <<writer, failed, drawn, loopIx>>
    /\ lastOp' = "from_iter"
    /\ UNCHANGED <<ext, clones, IS_ZST, mode, handle, calls, repeat_init, source, loopN>>

FromIterStep ==
    /\ mode = "from_iter" /\ wstate = "live" /\ loopIx < loopN
    /\ IF drawn < Len(source)
       THEN /\ drawn' = drawn + 1
            /\ AfterBulkElement(try_init_unchecked(writer, heap, source[drawn + 1]))
            /\ lastArgs' = source[drawn + 1]
       ELSE /\ ret' = Result("NotEnoughItems", 0)
            /\ heap' \in UndefinedOutcomes(SliceWriter_drop(writer, heap))
            /\ wstate' = "dropped"
            /\ wdrops' = wdrops + 1
            /\ lastArgs' = NoArgs
            /\ UNCHANGED <<writer, failed, drawn, loopIx>>
    /\ lastOp' = "from_iter"
    /\ UNCHANGED <<ext, clones, IS_ZST, mode, handle, calls, repeat_init, source, loopN>>

FromIterReturn ==
    /\ mode = "from_iter" /\ wstate = "live" /\ loopIx = loopN
    /\ AfterFinish(finish(writer, heap))
    /\ lastOp' = "from_iter"
    /\ lastArgs' = NoArgs
    /\ UNCHANGED <<ext, clones, IS_ZST, mode, writer, calls, failed, repeat_init, source,
                   drawn, loopIx, loopN>>

Next ==
    \/ TryInit
    \/ TryInitUnchecked
    \/ Finish
    \/ FinishUnchecked
    \/ DropWriter
    \/ DropHandle
    \/ RepeatStep
    \/ RepeatReturn
    \/ FromIterStep
    \/ FromIterReturn

Spec == Init /\ [][Next]_vars

\* Reading the slice back through Init::as_ref.
as_ref(p, h) == [i \in 1..p.len |-> h.val[ElemAddr(p.addr, i - 1)]]

----------------------------------------------------------------------------
\* Properties

N == writer.ptr.len

\* The step is a call of SliceWriter::try_init by the client.
IsTryInitCall == calls' = calls + 1 /\ lastOp' = "try_init"

\* 1-based position of the first item of s whose recipe does not succeed.
FirstBad(s) ==
    IF \E i \in 1..Len(s) : s[i].out # "ok"
    THEN CHOOSE i \in 1..Len(s) :
            s[i].out # "ok" /\ \A j \in 1..(i - 1) : s[j].out = "ok"
    ELSE 0

\* The bulk initializer was given a recipe that returns Err(e) on element k.
FailsOn(k, e) ==
    \/ /\ mode = "repeat"
       /\ repeat_init.failAt = k
       /\ repeat_init.failWith = [out |-> "err", val |-> 0, e |-> e]
    \/ /\ mode = "from_iter"
       /\ FirstBad(source) = k
       /\ source[k] = [out |-> "err", val |-> 0, e |-> e]

\* C1: when the recipe of a bulk slice initializer (Repeat, InitFromIter)
\* fails on element k of N, 1 <= k <= N, then once try_init_into has
\* returned it has returned that error, elements 1..k-1 have been
\* constructed and destructed exactly once each, and elements k..N have
\* never been destructed.
C1_BulkRollback ==
    \A k \in 1..N : \A e \in Errs :
        (FailsOn(k, e) /\ wstate # "live")
        => /\ ret.kind = "Err" /\ ret.e = e
           /\ handle = "none"
           /\ ~heap.ub
           /\ \A a \in Addrs :
                /\ heap.dtors[a] = CountAt(a, writer.ptr.addr, k - 1)
                /\ heap.ctors[a] = CountAt(a, writer.ptr.addr, k - 1)
                /\ heap.live[a] = 0

C1_Witness ==
    /\ mode = "from_iter" /\ ~IS_ZST /\ N = 3
    /\ FailsOn(2, 1)
    /\ ret.kind = "Err"
    /\ heap.dtors[Base] = 1
    /\ heap.dtors[ElemAddr(Base, 1)] = 0

\* C2: whenever SliceWriter::drop runs, it invokes the element destructor
\* exactly once on each of the first `init` slots and on no other slot; when
\* every one of those slots held a value, the values of the prefix are gone
\* and every other slot is as it was.
C2_DropDestructsPrefix ==
    [][(wdrops' = wdrops + 1)
        => \A a \in Addrs :
             /\ heap'.dtors[a] = heap.dtors[a]
                                 + CountAt(a, writer'.ptr.addr, writer'.init)
             /\ ~heap'.ub
                => /\ heap'.live[a] = heap.live[a]
                                      - CountAt(a, writer'.ptr.addr, writer'.init)
                   /\ heap'.val[a] = heap.val[a]]_vars

C2_Witness ==
    /\ mode = "manual" /\ lastOp = "drop" /\ wstate = "dropped"
    /\ ~IS_ZST /\ N = 3 /\ writer.init = 2
    /\ heap.dtors[Base] = 1
    /\ heap.dtors[ElemAddr(Base, 1)] = 1
    /\ heap.dtors[ElemAddr(Base, 2)] = 0

\* C3: while the writer is live, 0 <= init <= N, the slots holding a live
\* value are exactly the leading slots [0, init), and init + remaining_len()
\* = N as long as no element initializer has failed.
C3_PrefixInvariant ==
    wstate = "live"
    => /\ 0 <= writer.init /\ writer.init <= N
       /\ \A a \in Addrs :
            heap.live[a] = CountAt(a, writer.ptr.addr, writer.init)
       /\ ~failed => writer.init + remaining_len(writer) = N

\* C4: when an element initializer panics and the panic unwinds through the
\* writer, the writer's cleanup destructs exactly the elements that were
\* successfully initialized, once each, and no other slot.
C4_UnwindRollback ==
    (/\ lastOp \in {"try_init", "try_init_unchecked", "repeat", "from_iter"}
     /\ ret.kind = "Panic"
     /\ wstate = "dropped")
    => /\ ~heap.ub
       /\ \A a \in Addrs : heap.dtors[a] = heap.ctors[a]

\* C5: once an element initializer has failed or panicked, the writer is
\* poisoned: remaining_len() is 0, no further slot is initialized and init
\* never changes again.
C5_Poisoned ==
    [][(failed /\ wstate = "live")
        => /\ remaining_len(writer) = 0
           /\ remaining_len(writer') = 0
           /\ writer'.init = writer.init
           /\ heap'.ctors = heap.ctors]_vars

\* C6: try_init on a complete writer (init = N) runs no initializer, returns
\* Err(args) with the same args, and leaves the writer and every slot
\* unchanged.
C6_CompleteNoOp ==
    [][(IsTryInitCall /\ wstate = "live" /\ writer.init = N)
        => /\ ret' = [kind |-> "NoSlot", args |-> lastArgs', e |-> 0]
           /\ writer' = writer
           /\ heap' = heap
           /\ wstate' = "live"]_vars

C6_Witness ==
    /\ lastOp = "try_init" /\ ret.kind = "NoSlot"
    /\ ret.args.out = "ok"
    /\ N = 2 /\ writer.init = 2 /\ ~IS_ZST
    /\ heap.ctors[Base] = 1

\* C7: when a slot remains, try_init initializes the slot at index init; on
\* success init grows by exactly 1, and on failure the recipe's error is
\* returned unchanged as Ok(Err(e)) and init is unchanged.
C7_TryInitNextSlot ==
    [][(IsTryInitCall /\ wstate = "live" /\ remaining_len(writer) > 0)
        => LET a == ElemAddr(writer.ptr.addr, writer.init)
           IN  /\ lastArgs'.out = "ok"
                  => /\ ret'.kind = "Ok"
                     /\ writer'.init = writer.init + 1
                     /\ heap'.live[a] = heap.live[a] + 1
                     /\ heap'.val[a] = lastArgs'.val
               /\ lastArgs'.out = "err"
                  => /\ ret' = [kind |-> "Err", args |-> NoArgs, e |-> lastArgs'.e]
                     /\ writer'.init = writer.init
                     /\ heap' = heap]_vars

\* C8: finish() yields an Init<[T]> only when init = N, and then every
\* element of the run is live; called with init < N it panics and yields no
\* handle.
C8_FinishOnlyWhenComplete ==
    /\ (handle # "none" /\ wstate # "finished_unchecked")
       => /\ writer.init = N
          /\ handle = "live"
             => \A a \in Addrs : heap.live[a] = CountAt(a, writer.ptr.addr, N)
    /\ (lastOp = "finish" /\ writer.init < N)
       => (ret.kind = "Panic" /\ handle = "none")

C8_Witness ==
    /\ lastOp = "finish" /\ ret.kind = "Panic" /\ handle = "none"
    /\ failed /\ remaining_len(writer) = 0
    /\ N = 2 /\ writer.init = 1

\* C9: after a successful finish() SliceWriter::drop never runs, and each of
\* the N elements is destructed exactly once, when the returned Init<[T]> is
\* dropped.
C9_FinishDisarmsWriter ==
    (handle # "none" /\ wstate # "finished_unchecked")
    => /\ wdrops = 0
       /\ wstate = "finished"
       /\ handle = "live" => \A a \in Addrs : heap.dtors[a] = 0
       /\ handle = "dropped"
          => /\ ~heap.ub
             /\ \A a \in Addrs :
                  /\ heap.dtors[a] = CountAt(a, writer.ptr.addr, N)
                  /\ heap.live[a] = 0

C9_Witness ==
    /\ handle = "dropped" /\ wstate = "finished" /\ N = 3 /\ ~IS_ZST
    /\ heap.dtors[ElemAddr(Base, 2)] = 1

\* C10: when every recipe succeeds, the slice initialized by Repeat or
\* InitFromIter reads back as exactly N elements, element i being what the
\* i-th recipe produced.
C10_RoundTrip ==
    handle = "live"
    => /\ mode = "from_iter"
          => as_ref(writer.ptr, heap) = [i \in 1..N |-> source[i].val]
       /\ mode = "repeat"
          => as_ref(writer.ptr, heap) = [i \in 1..N |-> repeat_init.val]

C10_Witness ==
    /\ handle = "live" /\ mode = "from_iter" /\ N = 3 /\ ~IS_ZST
    /\ source[1].val # source[2].val
    /\ as_ref(writer.ptr, heap) = <<source[1].val, source[2].val, source[3].val>>

----------------------------------------------------------------------------
\* Copying a whole slice in one call: CopyFromSlice (src/src/slice.rs) and
\* Uninit::write_array, Uninit::write_slice (src/ip-init/src/ptr.rs).  The
\* element type is Copy; a slot holding 0 is uninitialized.

\* The slice writer, when the behaviour under study does not use one.
WriterOff ==
    /\ mode = "idle"
    /\ writer = SliceWriter_new([addr |-> Base, len |-> 0])
    /\ wstate = "dropped"
    /\ handle = "none"
    /\ heap = EmptyHeap
    /\ ret = [kind |-> "none", args |-> NoArgs, e |-> 0]
    /\ lastOp = "none"
    /\ lastArgs = NoArgs
    /\ calls = 0
    /\ failed = FALSE
    /\ wdrops = 0
    /\ repeat_init = NoRepeat
    /\ source = <<>>
    /\ drawn = 0
    /\ loopIx = 0
    /\ loopN = 0
    /\ clones = 0

WriterIdle == IS_ZST = FALSE /\ WriterOff

\* The destination memory before the call.
CopyMem == [i \in 1..MaxN |-> 0]

CopyRet(kind, s, d) == [kind |-> kind, src_len |-> s, dest_len |-> d]

\* core::ptr::copy_from_nonoverlapping of count elements
copy_from_nonoverlapping(mem, src, count) ==
    [i \in DOMAIN mem |-> IF i <= count THEN src[i] ELSE mem[i]]

CopyFromSlice_try_init_into_shorter(init, ptr_len, mem) ==
    IF Len(init) < ptr_len
    THEN [ret |-> CopyRet("Err", Len(init), ptr_len), mem |-> mem,
          writes |-> 0, handle |-> "consumed"]
    ELSE [ret |-> CopyRet("Ok", 0, 0),
          mem |-> copy_from_nonoverlapping(mem, init, Len(init)),
          writes |-> Len(init), handle |-> "init"]

\* <CopyFromSlice<T> as Initializer<[T]>>::try_init_into
CopyFromSlice_try_init_into(init, ptr_len, mem) ==
    IF Len(init) # ptr_len
    THEN [ret |-> CopyRet("Err", Len(init), ptr_len), mem |-> mem,
          writes |-> 0, handle |-> "consumed"]
    ELSE [ret |-> CopyRet("Ok", 0, 0),
          mem |-> copy_from_nonoverlapping(mem, init, Len(init)),
          writes |-> Len(init), handle |-> "init"]

\* Uninit<[T]>::write_array: assert!(self.len() == N), then one write of
\* the whole array.
write_array(self_len, array, mem) ==
    IF self_len = Len(array)
    THEN [ret |-> CopyRet("Ok", 0, 0),
          mem |-> copy_from_nonoverlapping(mem, array, Len(array)),
          writes |-> Len(array), handle |-> "init"]
    ELSE [ret |-> CopyRet("Panic", 0, 0), mem |-> mem,
          writes |-> 0, handle |-> "consumed"]

\* Uninit<[T]>::write_slice: assert!(self.len() == slice.len()), then a copy
\* of self.len() elements.
write_slice(self_len, slice, mem) ==
    IF self_len = Len(slice)
    THEN [ret |-> CopyRet("Ok", 0, 0),
          mem |-> copy_from_nonoverlapping(mem, slice, self_len),
          writes |-> self_len, handle |-> "init"]
    ELSE [ret |-> CopyRet("Panic", 0, 0), mem |-> mem,
          writes |-> 0, handle |-> "consumed"]

CopyInit ==
    /\ WriterIdle
    /\ own = Idle
    /\ zero = Idle
    /\ emplace = Idle
    /\ RestIdle
    /\ \E s \in SeqsUpTo(1..MaxVal, MaxN), d \in 0..MaxN :
         copy = [op |-> "none", src |-> s, dest_len |-> d, mem |-> CopyMem,
                 writes |-> 0, handle |-> "uninit", ret |-> CopyRet("none", 0, 0)]

AfterCopy(op, t) ==
    /\ copy' = [copy EXCEPT !.op = op, !.mem = t.mem, !.writes = t.writes,
                            !.handle = t.handle, !.ret = t.ret]
    /\ UNCHANGED <<wvars, own, zero, emplace, rest>>

CopyFromSliceCall ==
    /\ copy.op = "none"
    /\ AfterCopy("copy_from_slice",
                 CopyFromSlice_try_init_into(copy.src, copy.dest_len, copy.mem))

WriteArrayCall ==
    /\ copy.op = "none"
    /\ AfterCopy("write_array", write_array(copy.dest_len, copy.src, copy.mem))

WriteSliceCall ==
    /\ copy.op = "none"
    /\ AfterCopy("write_slice", write_slice(copy.dest_len, copy.src, copy.mem))

CopyNext ==
    \/ CopyFromSliceCall
    \/ WriteArrayCall
    \/ WriteSliceCall

SpecCopy == CopyInit /\ [][CopyNext]_vars

\* The destination holds exactly the source, element for element.
CopiedAll ==
    /\ copy.handle = "init"
    /\ copy.writes = copy.dest_len
    /\ \A i \in 1..MaxN :
         copy.mem[i] = (IF i <= copy.dest_len THEN copy.src[i] ELSE 0)

\* Nothing was written to the destination.
WroteNothing == copy.writes = 0 /\ copy.mem = CopyMem

\* C11: CopyFromSlice over a source of another length than the destination
\* returns CopyFromSliceError carrying the source length and the destination
\* length and writes nothing; over a source of the same length it copies
\* every element and returns the initialized handle.
C11_CopyFromSlice ==
    copy.op = "copy_from_slice" =>
        IF Len(copy.src) # copy.dest_len
        THEN /\ copy.ret = CopyRet("Err", Len(copy.src), copy.dest_len)
             /\ WroteNothing
        ELSE /\ copy.ret.kind = "Ok"
             /\ CopiedAll

C11_Witness ==
    /\ copy.op = "copy_from_slice"
    /\ Len(copy.src) = 3 /\ copy.dest_len = 2
    /\ copy.ret = CopyRet("Err", 3, 2)

\* C12: on a length mismatch write_array and write_slice leave the
\* uninitialized handle unchanged with the caller and return an error that
\* describes the mismatch; on equal lengths they initialize every element.
C12_MismatchReturnsError ==
    copy.op \in {"write_array", "write_slice"} =>
        IF Len(copy.src) # copy.dest_len
        THEN /\ copy.ret.kind = "Err"
             /\ copy.handle = "uninit"
             /\ WroteNothing
        ELSE /\ copy.ret.kind = "Ok"
             /\ CopiedAll

\* try_init_into of the bulk initializer has returned.
BulkReturned == wstate # "live"

\* C13: InitFromIter over an iterator that yields M < N items, every recipe
\* succeeding, returns NotEnoughItems, which is not the Error(e) of a
\* failing recipe, and by then each of the M constructed elements has been
\* destructed exactly once and nothing else has.
C13_NotEnoughItems ==
    (mode = "from_iter" /\ BulkReturned
        /\ Len(source) < N /\ FirstBad(source) = 0)
    => /\ ret.kind = "NotEnoughItems"
       /\ ret.kind # "Err"
       /\ handle = "none"
       /\ ~heap.ub
       /\ \A a \in Addrs :
            /\ heap.ctors[a] = CountAt(a, writer.ptr.addr, Len(source))
            /\ heap.dtors[a] = CountAt(a, writer.ptr.addr, Len(source))
            /\ heap.live[a] = 0

C13_Witness ==
    /\ mode = "from_iter" /\ ~IS_ZST /\ N = 3
    /\ Len(source) = 2 /\ FirstBad(source) = 0
    /\ ret.kind = "NotEnoughItems"
    /\ heap.dtors[Base] = 1
    /\ heap.dtors[ElemAddr(Base, 1)] = 1
    /\ heap.dtors[ElemAddr(Base, 2)] = 0

\* C14: InitFromIter over a slice of length N never draws more than N items;
\* when the iterator holds M >= N items and the recipes it hands out succeed,
\* it returns Ok with exactly N items drawn, the other M - N left in the
\* iterator.
C14_DrawsAtMostN ==
    mode = "from_iter" =>
        /\ drawn <= N
        /\ (BulkReturned /\ Len(source) >= N
                /\ \A i \in 1..N : source[i].out = "ok")
           => /\ ret.kind = "Ok"
              /\ handle # "none"
              /\ drawn = N

C14_Witness ==
    /\ mode = "from_iter" /\ N = 2 /\ Len(source) = 3
    /\ ret.kind = "Ok" /\ handle = "live"
    /\ drawn = 2

\* C15: Repeat over a slice of length N >= 1 that has returned Ok has cloned
\* the recipe exactly N - 1 times.
C15_ClonesAllButLast ==
    (mode = "repeat" /\ wstate = "finished" /\ N >= 1) => clones = N - 1

----------------------------------------------------------------------------
\* The life of an Init handle: Init::drop (src/src/ptr.rs), the ways of
\* giving up ownership (Init::take_ownership, PinnedInit::into_raw) and the
\* ways of building a handle over memory that already holds the value
\* (FromSlice in src/src/array.rs, TryFrom<Init<[T]>> for Init<[T; N]> in
\* src/ip-init/src/ptr.rs, Uninit::from_raw with assume_init).

\* Init::into_raw: the raw address, the destructor obligation given up.
Init_into_raw(h, p) == h

\* PinnedInit::into_raw
PinnedInit_into_raw(h, p) == Init_into_raw(h, p)

\* Init::from_raw_nonnull and Uninit::assume_init: a handle over the address,
\* memory untouched.
assume_init(h, p) == h

\* <[T] as Ctor<I>>::try_init on the n elements at p: an initializer that
\* either constructs every element or, having rolled back, returns its error
\* or panics.
Slice_try_init(h, p, args) ==
    [heap |-> IF args.out = "ok"
              THEN [h EXCEPT
                      !.live  = [a \in Addrs |-> @[a] + CountAt(a, p.addr, p.len)],
                      !.ctors = [a \in Addrs |-> @[a] + CountAt(a, p.addr, p.len)],
                      !.val   = [a \in Addrs |->
                                   IF CountAt(a, p.addr, p.len) > 0
                                   THEN args.val ELSE @[a]]]
              ELSE h,
     r    |-> args.out,
     e    |-> args.e]

OwnRet(kind, e) == [kind |-> kind, e |-> e]

\* FromSlice::try_init_into letting the temporary Init<[T]> drop
FromSlice_try_init_into_drop_temporary(h, p, args) ==
    LET c == Slice_try_init(h, p, args)
    IN  IF c.r = "ok"
        THEN [heap |-> assume_init(Init_drop(p, c.heap), p),
              handle |-> "array", ret |-> OwnRet("Ok", 0)]
        ELSE [heap |-> c.heap, handle |-> "none",
              ret |-> IF c.r = "err" THEN OwnRet("Err", c.e)
                      ELSE OwnRet("Panic", 0)]

\* <FromSlice<I> as Initializer<[T; N]>>::try_init_into
FromSlice_try_init_into(h, p, args) ==
    LET c == Slice_try_init(h, p, args)
    IN  IF c.r = "ok"
        THEN [heap |-> assume_init(take_ownership(c.heap, p.addr), p),
              handle |-> "array", ret |-> OwnRet("Ok", 0)]
        ELSE [heap |-> c.heap, handle |-> "none",
              ret |-> IF c.r = "err" THEN OwnRet("Err", c.e)
                      ELSE OwnRet("Panic", 0)]

\* <Init<[T; N]> as TryFrom<Init<[T]>>>::try_from
Init_try_from(h, p, n) ==
    IF p.len = n
    THEN [heap |-> assume_init(Init_into_raw(h, p), p),
          handle |-> "array", ret |-> OwnRet("Ok", 0)]
    ELSE [heap |-> h, handle |-> "slice", ret |-> OwnRet("Err", 0)]

\* Memory holding n constructed elements of value v at base.
Constructed(p, v) ==
    Slice_try_init(EmptyHeap, p, [out |-> "ok", val |-> v, e |-> 0]).heap

OwnInit ==
    /\ IS_ZST \in BOOLEAN
    /\ WriterOff
    /\ copy = Idle
    /\ zero = Idle
    /\ emplace = Idle
    /\ RestIdle
    /\ \E p \in Regions :
         \/ own = [handle |-> "uninit", ptr |-> p, heap |-> EmptyHeap,
                   ret |-> OwnRet("none", 0), last |-> "none",
                   rebuilt |-> FALSE, drops |-> 0]
         \/ \E k \in {"slice", "pinned"}, v \in ValsT :
              own = [handle |-> k, ptr |-> p, heap |-> Constructed(p, v),
                     ret |-> OwnRet("none", 0), last |-> "none",
                     rebuilt |-> FALSE, drops |-> 0]

OwnFrame == UNCHANGED <<wvars, copy, zero, emplace, rest>>

FromSliceCall ==
    /\ own.handle = "uninit"
    /\ \E args \in ArgsSet :
         LET t == FromSlice_try_init_into(own.heap, own.ptr, args)
         IN  own' = [own EXCEPT !.heap = t.heap, !.handle = t.handle,
                                !.ret = t.ret, !.last = "from_slice",
                                !.rebuilt = (t.ret.kind = "Ok")]
    /\ OwnFrame

TryFromCall ==
    /\ own.handle = "slice"
    /\ \E n \in 0..MaxN :
         LET t == Init_try_from(own.heap, own.ptr, n)
         IN  own' = [own EXCEPT !.heap = t.heap, !.handle = t.handle,
                                !.ret = t.ret, !.last = "try_from",
                                !.rebuilt = (@ \/ t.ret.kind = "Ok")]
    /\ OwnFrame

TakeOwnershipCall ==
    /\ own.handle \in {"slice", "array"}
    /\ own' = [own EXCEPT !.heap = take_ownership(own.heap, own.ptr.addr),
                          !.handle = "raw", !.last = "take_ownership"]
    /\ OwnFrame

IntoRawCall ==
    /\ own.handle = "pinned"
    /\ own' = [own EXCEPT !.heap = PinnedInit_into_raw(own.heap, own.ptr),
                          !.handle = "raw", !.last = "into_raw"]
    /\ OwnFrame

\* Uninit::from_raw(raw).assume_init() over the address given up earlier
FromRawCall ==
    /\ own.handle = "raw"
    /\ own' = [own EXCEPT !.heap = assume_init(own.heap, own.ptr),
                          !.handle = "slice", !.last = "from_raw",
                          !.rebuilt = TRUE]
    /\ OwnFrame

\* The handle goes out of scope or is passed to drop().
DropInitCall ==
    /\ own.handle \in {"slice", "array", "pinned"}
    /\ \E h \in UndefinedOutcomes(Init_drop(own.ptr, own.heap)) :
         own' = [own EXCEPT !.heap = h, !.handle = "none",
                            !.last = "drop", !.drops = @ + 1]
    /\ OwnFrame

OwnNext ==
    \/ FromSliceCall
    \/ TryFromCall
    \/ TakeOwnershipCall
    \/ IntoRawCall
    \/ FromRawCall
    \/ DropInitCall

SpecOwn == OwnInit /\ [][OwnNext]_vars

\* Destructor calls made on address a when every element of the value is
\* destructed once.
OncePerElement(a) == CountAt(a, own.ptr.addr, own.ptr.len)

\* C16: dropping an Init handle invokes the destructor of its value exactly
\* once, and giving up ownership first (take_ownership, into_raw) invokes
\* none.
C16_DropOnceUnlessRelinquished ==
    [][/\ (own'.drops = own.drops + 1)
          => /\ ~own'.heap.ub
             /\ \A a \in Addrs :
                  own'.heap.dtors[a] = own.heap.dtors[a] + OncePerElement(a)
       /\ (own'.last \in {"take_ownership", "into_raw"}
              /\ own'.handle = "raw" /\ own.handle # "raw")
          => own'.heap = own.heap]_vars

C16_Witness ==
    /\ ~IS_ZST /\ own.ptr.len = 2
    /\ own.last = "drop" /\ own.drops = 1 /\ ~own.rebuilt
    /\ own.heap.dtors[Base] = 1
    /\ own.heap.dtors[ElemAddr(Base, 1)] = 1

\* C17: whatever handles are given up and built again over the same address
\* (FromSlice, Init<[T]> to Init<[T; N]>, from_raw), no element is ever
\* destructed twice, and once the rebuilt handle has been dropped every
\* element has been destructed exactly once.
C17_RebuildDestructsOnce ==
    /\ ~own.heap.ub
    /\ \A a \in Addrs : own.heap.dtors[a] <= own.heap.ctors[a]
    /\ (own.rebuilt /\ own.drops = 1)
       => \A a \in Addrs :
            /\ own.heap.dtors[a] = OncePerElement(a)
            /\ own.heap.ctors[a] = OncePerElement(a)
            /\ own.heap.live[a] = 0

C17_Witness ==
    /\ ~IS_ZST /\ own.ptr.len = 2
    /\ own.rebuilt /\ own.drops = 1 /\ own.handle = "none"
    /\ own.heap.dtors[Base] = 1
    /\ own.heap.dtors[ElemAddr(Base, 1)] = 1

----------------------------------------------------------------------------
\* The zero-fill shortcut: LayoutProvider::is_zeroed of the primitive
\* providers (src/src/primitive.rs, src/src/layout_provider.rs), of a
\* repeated element (src/src/slice.rs) and of a header with a slice tail
\* (src/src/slice_tail.rs), next to the bytes the initializer of the same
\* arguments writes.  A region is the sequence of the bytes of its fields;
\* padding has no defined content and is left out.

PrimTypes == {"u8", "i8", "bool", "f32"}

\* An f32 is its sign, biased exponent and mantissa.
F32(s, x, m) == [sign |-> s, exp |-> x, man |-> m]

\* The arguments explored per type: for f32, 0.0, -0.0, 1.0, -1.0, the
\* smallest subnormal and a NaN.
PrimValues(ty) ==
    CASE ty = "u8"   -> {0, 1, 255}
      [] ty = "i8"   -> {-128, -1, 0, 1}
      [] ty = "bool" -> BOOLEAN
      [] ty = "f32"  -> {F32(0, 0, 0), F32(1, 0, 0), F32(0, 127, 0),
                         F32(1, 127, 0), F32(0, 0, 1), F32(0, 255, 4194304)}

\* core::mem::size_of
size_of(ty) == IF ty = "f32" THEN 4 ELSE 1

\* size_of::<usize>() on a 64-bit target
UsizeBytes == 8

\* The $zero the macros are invoked with: 0, 0.0, false.
zero_of(ty) ==
    CASE ty = "bool" -> FALSE
      [] ty = "f32"  -> F32(0, 0, 0)
      [] OTHER       -> 0

is_nan(f) == f.exp = 255 /\ f.man # 0

\* PartialEq::eq of the primitive types; for f32 the IEEE 754 comparison.
eq(ty, a, b) ==
    IF ty = "f32"
    THEN IF is_nan(a) \/ is_nan(b) THEN FALSE
         ELSE IF a.exp = 0 /\ a.man = 0 /\ b.exp = 0 /\ b.man = 0 THEN TRUE
         ELSE a = b
    ELSE a = b

RECURSIVE le_bytes(_, _)
\* usize::to_le_bytes: the n low bytes of x, least significant first.
le_bytes(x, n) ==
    IF n = 0 THEN <<>> ELSE <<x % 256>> \o le_bytes(x \div 256, n - 1)

\* The bytes Uninit::write stores for a value of the type (little endian).
to_bytes(ty, v) ==
    CASE ty = "u8"   -> <<v>>
      [] ty = "i8"   -> <<v % 256>>
      [] ty = "bool" -> <<IF v THEN 1 ELSE 0>>
      [] ty = "f32"  -> <<v.man % 256,
                          (v.man \div 256) % 256,
                          (v.exp % 2) * 128 + v.man \div 65536,
                          v.sign * 128 + v.exp \div 2>>

\* alloc_zeroed: a region of all-zero bytes
alloc_zeroed(size) == [i \in 1..size |-> 0]

RECURSIVE repeat_bytes(_, _)
\* The bytes of n consecutive elements, each holding the bytes b.
repeat_bytes(b, n) == IF n = 0 THEN <<>> ELSE b \o repeat_bytes(b, n - 1)

\* <PrimitiveLayoutProvider as LayoutProvider<$t, $t>>::is_zeroed
Prim_is_zeroed(ty, args) == eq(ty, args, zero_of(ty))

\* <$t as Initializer<$t>>::try_init_into: u.write(self)
Prim_try_init_into(ty, args) == to_bytes(ty, args)

\* <PrimitiveLayoutProvider as LayoutProvider<$t, ()>>::is_zeroed
Unit_is_zeroed(ty) == TRUE

\* <() as Initializer<$t>>::try_init_into: u.write($zero)
Unit_try_init_into(ty) == to_bytes(ty, zero_of(ty))

\* <SliceLayoutProvider<L> as LayoutProvider<[T], WithLength<Repeat<I>>>>
\* ::is_zeroed
Repeat_is_zeroed(ty, args) == Prim_is_zeroed(ty, args.init)

\* WithLength<Repeat<I>> as an initializer: args.len elements, each written
\* from a clone of args.init
Repeat_try_init_into(ty, args) ==
    repeat_bytes(Prim_try_init_into(ty, args.init), args.len)

\* <SliceTailLayoutProvider as LayoutProvider<SliceTail<H, T>,
\* SliceTailArgs<HArgs, TsArgs>>>::is_zeroed
SliceTail_is_zeroed(ty, args) ==
    IF ~Prim_is_zeroed(ty, args.header) THEN FALSE
    ELSE IF ~Repeat_is_zeroed(ty, args.tail) THEN FALSE
    ELSE args.tail.len = 0

\* <SliceTailArgs as Initializer<SliceTail<H, T>>>::try_init_into: the
\* fields of the repr(C) struct in order: len, header, tail.
SliceTail_try_init_into(ty, args) ==
    le_bytes(args.tail.len, UsizeBytes)
        \o Prim_try_init_into(ty, args.header)
        \o Repeat_try_init_into(ty, args.tail)

ZeroArgs(shape, ty) ==
    CASE shape = "value"  -> PrimValues(ty)
      [] shape = "unit"   -> {zero_of(ty)}
      [] shape = "repeat" ->
            {[init |-> v, len |-> n] : v \in PrimValues(ty), n \in 0..MaxN}
      [] shape = "slice_tail" ->
            {[header |-> h, tail |-> [init |-> v, len |-> n]] :
                h \in PrimValues(ty), v \in PrimValues(ty), n \in 0..MaxN}

ZeroInit ==
    /\ WriterIdle
    /\ copy = Idle
    /\ own = Idle
    /\ emplace = Idle
    /\ RestIdle
    /\ \E shape \in {"value", "unit", "repeat", "slice_tail"}, ty \in PrimTypes :
         \E a \in ZeroArgs(shape, ty) :
            zero = [shape |-> shape, ty |-> ty, args |-> a, done |-> FALSE,
                    is_zeroed |-> FALSE, written |-> <<>>]

AfterInitialize(z, w) ==
    /\ zero' = [zero EXCEPT !.done = TRUE, !.is_zeroed = z, !.written = w]
    /\ UNCHANGED <<wvars, copy, own, emplace, rest>>

InitializePrimitive ==
    /\ zero.shape = "value" /\ ~zero.done
    /\ AfterInitialize(Prim_is_zeroed(zero.ty, zero.args),
                       Prim_try_init_into(zero.ty, zero.args))

InitializeUnit ==
    /\ zero.shape = "unit" /\ ~zero.done
    /\ AfterInitialize(Unit_is_zeroed(zero.ty), Unit_try_init_into(zero.ty))

InitializeRepeat ==
    /\ zero.shape = "repeat" /\ ~zero.done
    /\ AfterInitialize(Repeat_is_zeroed(zero.ty, zero.args),
                       Repeat_try_init_into(zero.ty, zero.args))

InitializeSliceTail ==
    /\ zero.shape = "slice_tail" /\ ~zero.done
    /\ AfterInitialize(SliceTail_is_zeroed(zero.ty, zero.args),
                       SliceTail_try_init_into(zero.ty, zero.args))

ZeroNext ==
    \/ InitializePrimitive
    \/ InitializeUnit
    \/ InitializeRepeat
    \/ InitializeSliceTail

SpecZero == ZeroInit /\ [][ZeroNext]_vars

\* C18: whenever is_zeroed answers true for the arguments, the region the
\* initializer writes from those arguments is byte for byte the all-zero
\* region of the same size.
C18_ZeroFillEquivalence ==
    (zero.done /\ zero.is_zeroed)
        => zero.written = alloc_zeroed(Len(zero.written))

----------------------------------------------------------------------------
\* emplace_with (src/src/boxed.rs): compute the layout, allocate, run the
\* initializer under the Allocation guard, hand the block to the box.

\* Layout: size and alignment in bytes.
Layouts == {[size |-> sz, align |-> al] : sz \in 0..TSize, al \in {1, 2}}

NoLayout == [size |-> 0, align |-> 0]

\* Option<Layout>, the result of LayoutProvider::layout_for.
LayoutOptions ==
    {[some |-> TRUE, layout |-> l] : l \in Layouts}
        \cup {[some |-> FALSE, layout |-> NoLayout]}

\* The null pointer.
Null == 0

EmplaceRet(kind, layout, e) == [kind |-> kind, layout |-> layout, e |-> e]

\* alloc::alloc::alloc and alloc_zeroed: one call of the global allocator,
\* which returns the block at Base or, out of memory, null.
alloc(m, layout, zeroed, fails) ==
    IF fails
    THEN [mem |-> [m EXCEPT !.alloc_calls = @ + 1], ptr |-> Null]
    ELSE [mem |-> [m EXCEPT !.alloc_calls = @ + 1,
                            !.allocs = Append(@, [ptr |-> Base,
                                                  layout |-> layout,
                                                  zeroed |-> zeroed])],
          ptr |-> Base]

\* alloc::alloc::dealloc
dealloc(m, ptr, layout) ==
    [m EXCEPT !.deallocs = Append(@, [ptr |-> ptr, layout |-> layout])]

\* The guard deallocating whatever the size of its layout
Allocation_drop_any_size(m, ptr, layout) ==
    dealloc(m, ptr, layout)

\* <Allocation as Drop>::drop
Allocation_drop(m, ptr, layout) ==
    IF layout.size # 0 THEN dealloc(m, ptr, layout) ELSE m

\* let layout = L::layout_for(&init).ok_or(EmplaceError::Layout)?;
\* let is_zeroed = L::is_zeroed(&init);
emplace_with_layout(e) ==
    IF ~e.layout_for.some
    THEN [e EXCEPT !.pc = "done", !.ret = EmplaceRet("Layout", NoLayout, 0)]
    ELSE [e EXCEPT !.pc = "alloc", !.layout = e.layout_for.layout,
                   !.is_zeroed = e.zeroed_arg]

emplace_with_alloc_reports_layout(e) ==
    LET a == IF e.layout.size = 0
             THEN [mem |-> e.mem, ptr |-> e.layout.align]
             ELSE alloc(e.mem, e.layout, e.is_zeroed, e.alloc_fails)
    IN  IF a.ptr = Null
        THEN [e EXCEPT !.pc = "done", !.mem = a.mem,
                       !.ret = EmplaceRet("Layout", NoLayout, 0)]
        ELSE [e EXCEPT !.pc = "init", !.mem = a.mem, !.ptr = a.ptr]

\* The allocation: a dangling pointer for a zero-sized layout, alloc_zeroed
\* when is_zeroed, alloc otherwise; null is EmplaceError::Alloc(layout).
emplace_with_alloc(e) ==
    LET a == IF e.layout.size = 0
             THEN [mem |-> e.mem, ptr |-> e.layout.align]
             ELSE alloc(e.mem, e.layout, e.is_zeroed, e.alloc_fails)
    IN  IF a.ptr = Null
        THEN [e EXCEPT !.pc = "done", !.mem = a.mem,
                       !.ret = EmplaceRet("Alloc", e.layout, 0)]
        ELSE [e EXCEPT !.pc = "init", !.mem = a.mem, !.ptr = a.ptr]

\* emplace_with forgetting the guard before the initializer has run
emplace_with_init_forget_early(e) ==
    IF ~e.is_zeroed
    THEN LET ran == [e EXCEPT !.inits = @ + 1, !.pc = "done"]
         IN  CASE e.init.out = "ok" ->
                    [ran EXCEPT !.box = e.ptr,
                                !.ret = EmplaceRet("Ok", NoLayout, 0)]
               [] e.init.out = "err" ->
                    [ran EXCEPT !.ret = EmplaceRet("Init", NoLayout, e.init.e)]
               [] e.init.out = "panic" ->
                    [ran EXCEPT !.ret = EmplaceRet("Panic", NoLayout, 0)]
    ELSE [e EXCEPT !.pc = "done", !.box = e.ptr,
                   !.ret = EmplaceRet("Ok", NoLayout, 0)]

\* if !is_zeroed { guard; uninit.try_init(init).map_err(EmplaceError::Init)?
\* .take_ownership(); forget(guard) }  Ok(transmute(ptr)).  The `?` and a
\* panic of the initializer both drop the guard.
emplace_with_init(e) ==
    IF ~e.is_zeroed
    THEN LET ran == [e EXCEPT !.inits = @ + 1, !.pc = "done"]
         IN  CASE e.init.out = "ok" ->
                    [ran EXCEPT !.box = e.ptr,
                                !.ret = EmplaceRet("Ok", NoLayout, 0)]
               [] e.init.out = "err" ->
                    [ran EXCEPT
                        !.mem = Allocation_drop(e.mem, e.ptr, e.layout),
                        !.ret = EmplaceRet("Init", NoLayout, e.init.e)]
               [] e.init.out = "panic" ->
                    [ran EXCEPT
                        !.mem = Allocation_drop(e.mem, e.ptr, e.layout),
                        !.ret = EmplaceRet("Panic", NoLayout, 0)]
    ELSE [e EXCEPT !.pc = "done", !.box = e.ptr,
                   !.ret = EmplaceRet("Ok", NoLayout, 0)]

EmplaceInit ==
    /\ WriterIdle
    /\ copy = Idle
    /\ own = Idle
    /\ zero = Idle
    /\ RestIdle
    /\ \E l \in LayoutOptions, z \in BOOLEAN, f \in BOOLEAN,
          i \in ArgsSet :
         emplace = [pc |-> "start", layout_for |-> l, zeroed_arg |-> z,
                    alloc_fails |-> f, init |-> i,
                    layout |-> NoLayout, is_zeroed |-> FALSE, ptr |-> Null,
                    mem |-> [alloc_calls |-> 0, allocs |-> <<>>,
                             deallocs |-> <<>>],
                    inits |-> 0, box |-> Null,
                    ret |-> EmplaceRet("none", NoLayout, 0)]

EmplaceFrame == UNCHANGED <<wvars, copy, own, zero, rest>>

EmplaceLayout ==
    /\ emplace.pc = "start"
    /\ emplace' = emplace_with_layout(emplace)
    /\ EmplaceFrame

EmplaceAlloc ==
    /\ emplace.pc = "alloc"
    /\ emplace' = emplace_with_alloc(emplace)
    /\ EmplaceFrame

EmplaceInitialize ==
    /\ emplace.pc = "init"
    /\ emplace' = emplace_with_init(emplace)
    /\ EmplaceFrame

EmplaceNext ==
    \/ EmplaceLayout
    \/ EmplaceAlloc
    \/ EmplaceInitialize

SpecEmplace == EmplaceInit /\ [][EmplaceNext]_vars

\* Number of dealloc calls made on the block b with the layout of b.
DeallocsOf(b) ==
    Cardinality({j \in 1..Len(emplace.mem.deallocs) :
                    emplace.mem.deallocs[j] =
                        [ptr |-> b.ptr, layout |-> b.layout]})

\* emplace_with has returned or unwound.
EmplaceDone == emplace.pc = "done"

\* C19: once emplace_with has returned or unwound, every block it allocated
\* has either been deallocated exactly once with its layout, the call not
\* having succeeded, or belongs to the returned box and has not been
\* deallocated, the call having succeeded; and nothing else was deallocated.
C19_AllocationDiscipline ==
    EmplaceDone =>
        /\ \A i \in 1..Len(emplace.mem.allocs) :
             LET b == emplace.mem.allocs[i]
             IN  IF emplace.ret.kind = "Ok"
                 THEN DeallocsOf(b) = 0 /\ emplace.box = b.ptr
                 ELSE DeallocsOf(b) = 1 /\ emplace.box = Null
        /\ \A j \in 1..Len(emplace.mem.deallocs) :
             \E i \in 1..Len(emplace.mem.allocs) :
                emplace.mem.deallocs[j] =
                    [ptr |-> emplace.mem.allocs[i].ptr,
                     layout |-> emplace.mem.allocs[i].layout]

C19_Witness ==
    /\ EmplaceDone
    /\ emplace.init.out = "panic"
    /\ emplace.ret.kind = "Panic"
    /\ Len(emplace.mem.allocs) = 1
    /\ emplace.mem.deallocs = <<[ptr |-> Base, layout |-> emplace.layout]>>

\* C20: no layout gives EmplaceError::Layout with no allocator call and no
\* initializer run; a null allocation gives EmplaceError::Alloc(layout) with
\* no initializer run; an initializer failing with e gives
\* EmplaceError::Init(e).
C20_ErrorMapping ==
    EmplaceDone =>
        /\ ~emplace.layout_for.some
           => /\ emplace.ret = EmplaceRet("Layout", NoLayout, 0)
              /\ emplace.mem.alloc_calls = 0
              /\ emplace.inits = 0
        /\ (emplace.layout_for.some /\ emplace.layout_for.layout.size # 0
                /\ emplace.alloc_fails)
           => /\ emplace.ret = EmplaceRet("Alloc", emplace.layout_for.layout, 0)
              /\ emplace.inits = 0
        /\ (emplace.layout_for.some
                /\ (emplace.layout_for.layout.size = 0 \/ ~emplace.alloc_fails)
                /\ ~emplace.zeroed_arg /\ emplace.init.out = "err")
           => /\ emplace.ret = EmplaceRet("Init", NoLayout, emplace.init.e)
              /\ emplace.inits = 1

C20_Witness ==
    /\ EmplaceDone
    /\ emplace.layout_for.some /\ emplace.alloc_fails
    /\ emplace.ret.kind = "Alloc"
    /\ emplace.ret.layout = [size |-> 2, align |-> 2]

\* emplace_with got a layout and a non-null pointer, so it reached the
\* initialization step.
EmplaceAllocated ==
    /\ emplace.layout_for.some
    /\ (emplace.layout_for.layout.size = 0 \/ ~emplace.alloc_fails)

\* C29: once emplace_with has returned or unwound with a region obtained, the
\* initializer has run exactly once if is_zeroed is false and not at all if
\* is_zeroed is true, the region then coming from alloc_zeroed; it never runs
\* more than once; and with a layout of size 0 the allocator is never called,
\* neither to allocate nor to deallocate, whatever the initializer does.
C29_InitializerRunsAndZeroSize ==
    /\ emplace.inits <= 1
    /\ (emplace.layout_for.some /\ emplace.layout_for.layout.size = 0)
       => /\ emplace.mem.alloc_calls = 0
          /\ emplace.mem.allocs = <<>>
          /\ emplace.mem.deallocs = <<>>
    /\ (EmplaceDone /\ EmplaceAllocated)
       => IF emplace.zeroed_arg
          THEN /\ emplace.inits = 0
               /\ emplace.ret.kind = "Ok"
               /\ \A i \in 1..Len(emplace.mem.allocs) :
                     emplace.mem.allocs[i].zeroed
          ELSE /\ emplace.inits = 1
               /\ \A i \in 1..Len(emplace.mem.allocs) :
                     ~emplace.mem.allocs[i].zeroed

C29_Witness ==
    /\ EmplaceDone
    /\ emplace.layout_for.some
    /\ emplace.layout_for.layout.size = 0
    /\ ~emplace.zeroed_arg
    /\ emplace.init.out = "err"
    /\ emplace.inits = 1
    /\ emplace.ret.kind = "Init"
    /\ emplace.mem.alloc_calls = 0
    /\ emplace.mem.deallocs = <<>>

----------------------------------------------------------------------------
\* Iterators over a slice: RawIter and UninitIter (src/src/iter.rs),
\* UninitSliceIter with its double-ended and nth operations, and
\* InitSliceIter, the by-value iterator of Init<[T]> (src/src/ptr.rs).

\* RawIter::new
RawIter_new(p) ==
    IF IS_ZST THEN [start |-> p.len, end |-> p.addr]
    ELSE [start |-> p.addr, end |-> ElemAddr(p.addr, p.len)]

\* RawIter::len taking the distance in bytes
RawIter_len_in_bytes(r) ==
    IF IS_ZST THEN r.start ELSE r.end - r.start

\* RawIter::len
RawIter_len(r) ==
    IF IS_ZST THEN r.start ELSE (r.end - r.start) \div SizeOfT

\* RawIter::is_empty
RawIter_is_empty(r) ==
    IF IS_ZST THEN RawIter_len(r) = 0 ELSE r.end = r.start

\* RawIter::next_unchecked
RawIter_next_unchecked(r) ==
    IF IS_ZST
    THEN [iter |-> [r EXCEPT !.start = @ - 1], some |-> TRUE, item |-> r.end]
    ELSE [iter |-> [r EXCEPT !.start = ElemAddr(@, 1)], some |-> TRUE,
          item |-> r.start]

\* <UninitIter as Iterator>::next
UninitIter_next(r) ==
    IF RawIter_is_empty(r) THEN [iter |-> r, some |-> FALSE, item |-> 0]
    ELSE RawIter_next_unchecked(r)

\* UninitSliceIter::next_back_unchecked
next_back_unchecked(it) ==
    IF IS_ZST
    THEN [iter |-> [it EXCEPT !.end_or_len = @ - 1], some |-> TRUE,
          item |-> it.ptr]
    ELSE [iter |-> [it EXCEPT !.end_or_len = @ - SizeOfT], some |-> TRUE,
          item |-> it.end_or_len - SizeOfT]

\* UninitSliceIter::fwd_unchecked; called with n below len(), so the
\* wrapping subtraction does not wrap
fwd_unchecked(it, n) ==
    IF IS_ZST THEN [it EXCEPT !.end_or_len = @ - n]
    ELSE [it EXCEPT !.ptr = ElemAddr(@, n)]

\* UninitSliceIter::bck_unchecked
bck_unchecked(it, n) ==
    IF IS_ZST THEN [it EXCEPT !.end_or_len = @ - n]
    ELSE [it EXCEPT !.end_or_len = @ - n * SizeOfT]

\* <UninitSliceIter as Iterator>::nth
nth(it, n) ==
    IF n >= len(it) THEN [iter |-> reset(it), some |-> FALSE, item |-> 0]
    ELSE next_unchecked(fwd_unchecked(it, n))

\* <UninitSliceIter as DoubleEndedIterator>::next_back
next_back(it) ==
    IF is_empty(it) THEN [iter |-> it, some |-> FALSE, item |-> 0]
    ELSE next_back_unchecked(it)

\* nth_back forgetting to skip the n elements
nth_back_without_skip(it, n) ==
    IF n >= len(it) THEN [iter |-> reset(it), some |-> FALSE, item |-> 0]
    ELSE next_back_unchecked(it)

\* <UninitSliceIter as DoubleEndedIterator>::nth_back
nth_back(it, n) ==
    IF n >= len(it) THEN [iter |-> reset(it), some |-> FALSE, item |-> 0]
    ELSE next_back_unchecked(bck_unchecked(it, n))

\* <Init<[T]> as IntoIterator>::into_iter: the handle is wrapped in
\* ManuallyDrop, so no destructor runs here.
Init_into_iter(p) == UninitSliceIter_new(p)

\* iter_assume_init: the Uninit<T> yielded by the inner iterator becomes an
\* Init<T> over the same address.
iter_assume_init(r) == r

\* <InitSliceIter as Iterator>::next
InitSliceIter_next(it) == iter_assume_init(next(it))

\* <InitSliceIter as DoubleEndedIterator>::next_back
InitSliceIter_next_back(it) == iter_assume_init(next_back(it))

\* Dropping an InitSliceIter: the type has no Drop impl and its only field,
\* an UninitSliceIter, has none either, so memory is left as it is.
InitSliceIter_drop(it, h) == h

\* Dropping an Init<T> handed out by the iterator.
Init_drop_element(a, h) == drop_in_place(h, a, 1)

NoCall == [op |-> "none", n |-> 0, some |-> FALSE, item |-> 0]

IterInit ==
    /\ IS_ZST \in BOOLEAN
    /\ WriterOff
    /\ copy = Idle /\ own = Idle /\ zero = Idle /\ emplace = Idle
    /\ rec = Idle /\ selfref = Idle /\ vec = Idle /\ tail = Idle
    /\ \E p \in Regions, k \in {"uninit", "raw", "init"} :
         siter = [kind |-> k, ptr |-> p,
                  it |-> CASE k = "raw" -> RawIter_new(p)
                           [] k = "uninit" -> UninitSliceIter_new(p)
                           [] k = "init" -> Init_into_iter(p),
                  heap |-> IF k = "init" THEN Constructed(p, 1) ELSE EmptyHeap,
                  out |-> <<>>, held |-> <<>>, last |-> NoCall,
                  front |-> 0, back |-> 0, fwd_only |-> TRUE,
                  len_obs |-> p.len, empty_obs |-> (p.len = 0),
                  dropped |-> FALSE]

IterFrame ==
    UNCHANGED <<wvars, copy, own, zero, emplace, rec, selfref, vec, tail>>

\* The bookkeeping common to the calls: r is what the call returned, f and b
\* the number of elements a successful call takes from the front and from
\* the back.  A call that returns None leaves nothing to take.
AfterCall(op, n, r, f, b, l, e) ==
    siter' = [siter EXCEPT
        !.it = r.iter,
        !.out = IF r.some THEN Append(@, r.item) ELSE @,
        !.held = IF r.some /\ siter.kind = "init" THEN Append(@, r.item) ELSE @,
        !.last = [op |-> op, n |-> n, some |-> r.some, item |-> r.item],
        !.front = IF r.some THEN @ + f
                  ELSE IF op \in {"nth", "nth_back"}
                       THEN siter.ptr.len - siter.back ELSE @,
        !.back = IF r.some THEN @ + b ELSE @,
        !.fwd_only = (@ /\ op \in {"next", "next_unchecked"}),
        !.len_obs = l,
        !.empty_obs = e]

RawNextUnchecked ==
    /\ siter.kind = "raw" /\ ~RawIter_is_empty(siter.it)
    /\ LET r == RawIter_next_unchecked(siter.it)
       IN  AfterCall("next_unchecked", 0, r, 1, 0,
                     RawIter_len(r.iter), RawIter_is_empty(r.iter))
    /\ IterFrame

RawNext ==
    /\ siter.kind = "raw"
    /\ LET r == UninitIter_next(siter.it)
       IN  AfterCall("next", 0, r, 1, 0,
                     RawIter_len(r.iter), RawIter_is_empty(r.iter))
    /\ IterFrame

IterNext ==
    /\ siter.kind = "uninit"
    /\ LET r == next(siter.it)
       IN  AfterCall("next", 0, r, 1, 0, len(r.iter), is_empty(r.iter))
    /\ IterFrame

IterNextBack ==
    /\ siter.kind = "uninit"
    /\ LET r == next_back(siter.it)
       IN  AfterCall("next_back", 0, r, 0, 1, len(r.iter), is_empty(r.iter))
    /\ IterFrame

IterNth ==
    /\ siter.kind = "uninit"
    /\ \E n \in 0..MaxN :
         LET r == nth(siter.it, n)
         IN  AfterCall("nth", n, r, n + 1, 0, len(r.iter), is_empty(r.iter))
    /\ IterFrame

IterNthBack ==
    /\ siter.kind = "uninit"
    /\ \E n \in 0..MaxN :
         LET r == nth_back(siter.it, n)
         IN  AfterCall("nth_back", n, r, 0, n + 1, len(r.iter), is_empty(r.iter))
    /\ IterFrame

InitIterNext ==
    /\ siter.kind = "init" /\ ~siter.dropped
    /\ LET r == InitSliceIter_next(siter.it)
       IN  AfterCall("next", 0, r, 1, 0, len(r.iter), is_empty(r.iter))
    /\ IterFrame

InitIterNextBack ==
    /\ siter.kind = "init" /\ ~siter.dropped
    /\ LET r == InitSliceIter_next_back(siter.it)
       IN  AfterCall("next_back", 0, r, 0, 1, len(r.iter), is_empty(r.iter))
    /\ IterFrame

\* One of the Init<T> handles handed out goes out of scope.
DropYielded ==
    /\ siter.kind = "init" /\ siter.held # <<>>
    /\ \E i \in 1..Len(siter.held) :
         \E h \in UndefinedOutcomes(Init_drop_element(siter.held[i], siter.heap)) :
            siter' = [siter EXCEPT
                !.heap = h,
                !.held = [j \in 1..(Len(@) - 1) |->
                            IF j < i THEN @[j] ELSE @[j + 1]],
                !.last = [op |-> "drop_item", n |-> 0, some |-> FALSE,
                          item |-> siter.held[i]]]
    /\ IterFrame

\* The iterator goes out of scope.
DropIter ==
    /\ siter.kind = "init" /\ ~siter.dropped
    /\ \E h \in UndefinedOutcomes(InitSliceIter_drop(siter.it, siter.heap)) :
         siter' = [siter EXCEPT !.heap = h, !.dropped = TRUE,
                                !.last = [NoCall EXCEPT !.op = "drop_iter"]]
    /\ IterFrame

IterStep ==
    \/ RawNextUnchecked
    \/ RawNext
    \/ IterNext
    \/ IterNextBack
    \/ IterNth
    \/ IterNthBack
    \/ InitIterNext
    \/ InitIterNextBack
    \/ DropYielded
    \/ DropIter

SpecIter == IterInit /\ [][IterStep]_vars

\* Length of the slice under the iterator.
IterL == siter.ptr.len

\* C21: iterating forward only (RawIter::next_unchecked, UninitIter::next,
\* UninitSliceIter::next) over a slice of length L, the i-th call yields the
\* pointer to element i, for i = 0..L-1 and no further; len() is L minus
\* the number of elements yielded, and is_empty() holds exactly when len()
\* is 0.
C21_ForwardIteration ==
    (siter.kind \in {"uninit", "raw"} /\ siter.fwd_only) =>
        /\ Len(siter.out) <= IterL
        /\ \A i \in 1..Len(siter.out) :
             siter.out[i] = ElemAddr(siter.ptr.addr, i - 1)
        /\ siter.len_obs = IterL - Len(siter.out)
        /\ siter.empty_obs <=> (siter.len_obs = 0)
        /\ (siter.last.op # "none" /\ ~siter.last.some)
           => Len(siter.out) = IterL

C21_Witness ==
    /\ siter.kind = "raw" /\ ~IS_ZST /\ IterL = 3
    /\ siter.out = <<Base, ElemAddr(Base, 1), ElemAddr(Base, 2)>>
    /\ siter.len_obs = 0 /\ siter.empty_obs

\* Elements left between the two cursors.
IterRemaining == IterL - siter.front - siter.back

\* C22: on an UninitSliceIter, next and nth(n) return the element n
\* positions after the front cursor (n = 0 for next) and take n + 1 elements
\* from the front, next_back and nth_back(n) return the element n positions
\* before the back cursor and take n + 1 elements from the back; a call
\* returns None exactly when fewer than n + 1 elements remain, and the
\* iterator is empty afterwards; no element is returned twice.
C22_DoubleEndedNth ==
    /\ [](siter.kind = "uninit" =>
            /\ Len(siter.out) <= IterL
            /\ ~IS_ZST => \A i, j \in 1..Len(siter.out) :
                              i # j => siter.out[i] # siter.out[j])
    /\ [][(siter.kind = "uninit" /\ siter' # siter) =>
            LET c == siter'.last
                k == IF c.op \in {"nth", "nth_back"} THEN c.n ELSE 0
            IN  IF k < IterRemaining
                THEN /\ c.some
                     /\ c.item = IF c.op \in {"next", "nth"}
                                 THEN ElemAddr(siter.ptr.addr, siter.front + k)
                                 ELSE ElemAddr(siter.ptr.addr,
                                               IterL - siter.back - k - 1)
                     /\ siter'.len_obs = IterRemaining - k - 1
                ELSE /\ ~c.some
                     /\ siter'.len_obs = 0
                     /\ siter'.empty_obs]_vars

C22_Witness ==
    /\ siter.kind = "uninit" /\ ~IS_ZST /\ IterL = 3
    /\ siter.last = [op |-> "nth_back", n |-> 1, some |-> TRUE,
                     item |-> ElemAddr(Base, 1)]
    /\ siter.front = 0 /\ siter.back = 2
    /\ siter.len_obs = 1

\* C30: once the iterator made from an Init<[T]> of length L and every
\* handle it yielded have been dropped, each of the L elements has been
\* destructed exactly once.
C30_IterDropDestructsAll ==
    (siter.kind = "init" /\ siter.dropped /\ siter.held = <<>>) =>
        /\ ~siter.heap.ub
        /\ \A a \in Addrs :
             siter.heap.dtors[a] = CountAt(a, siter.ptr.addr, IterL)

----------------------------------------------------------------------------
\* init_struct! (src/src/macros.rs): the fields of a struct are initialized
\* one after the other through their addresses, each completed field being
\* held in a local Init handle until all of them are done.

\* The events of one expansion: the initializer of field f ran, field f was
\* destructed.
Ran(f) == [ev |-> "ran", f |-> f]

Destructed(f) == [ev |-> "destructed", f |-> f]

RecRet(kind, e) == [kind |-> kind, e |-> e]

\* TagFrom::convert: U::from(t), the error conversion the caller's types
\* select.
convert(from, e) == from[e]

\* <Init as Drop>::drop on the handle of field f
Init_drop_field(r, f) ==
    [r EXCEPT !.dtors[f] = @ + 1, !.log = Append(@, Destructed(f))]

\* The locals dropped first declared first
RECURSIVE drop_locals_in_declaration_order(_)
drop_locals_in_declaration_order(r) ==
    IF r.held = <<>>
    THEN r
    ELSE drop_locals_in_declaration_order(
            Init_drop_field([r EXCEPT !.held = Tail(@)], Head(r.held)))

\* Leaving the closure early, by `return Err(..)` or by unwinding, drops its
\* locals in the reverse order of their declaration: the handle of the last
\* completed field first.
RECURSIVE drop_locals(_)
drop_locals(r) ==
    IF r.held = <<>>
    THEN r
    ELSE drop_locals(
            Init_drop_field([r EXCEPT !.held = SubSeq(@, 1, Len(@) - 1)],
                            r.held[Len(r.held)]))

\* One repetition of the macro body for the field r.k:
\* let field = Uninit::from_raw(&raw mut (*ptr).$field);
\* let mut $field = match field.try_init($field_value) {
\*     Ok(field) => field, Err(x) => return Err(converter.convert(x)) };
init_struct_field(r) ==
    LET a == r.inits[r.k]
        ran == [r EXCEPT !.log = Append(@, Ran(r.k))]
    IN  CASE a.out = "ok" ->
               [ran EXCEPT !.ctors[r.k] = @ + 1, !.val[r.k] = a.val,
                           !.held = Append(@, r.k), !.k = @ + 1]
          [] a.out = "err" ->
               [drop_locals(ran) EXCEPT
                    !.pc = "done", !.ret = RecRet("Err", convert(r.from, a.e))]
          [] a.out = "panic" ->
               [drop_locals(ran) EXCEPT
                    !.pc = "done", !.ret = RecRet("Panic", 0)]

\* core::mem::forget(($($field,)*)); Ok(unsafe { uninit.assume_init() })
init_struct_finish(r) ==
    [r EXCEPT !.held = <<>>, !.complete = TRUE, !.pc = "done",
              !.ret = RecRet("Ok", 0)]

RecInit ==
    /\ WriterIdle
    /\ copy = Idle /\ own = Idle /\ zero = Idle /\ emplace = Idle
    /\ siter = Idle /\ selfref = Idle /\ vec = Idle /\ tail = Idle
    /\ \E n \in 1..MaxN :
         \E i \in [1..n -> ArgsSet], c \in [Errs -> Errs] :
            rec = [pc |-> "fields", n |-> n, inits |-> i, from |-> c, k |-> 1,
                   held |-> <<>>, log |-> <<>>,
                   ctors |-> [f \in 1..n |-> 0],
                   dtors |-> [f \in 1..n |-> 0],
                   val |-> [f \in 1..n |-> 0],
                   complete |-> FALSE, ret |-> RecRet("none", 0)]

RecFrame ==
    UNCHANGED <<wvars, copy, own, zero, emplace, siter, selfref, vec, tail>>

\* The initializer of the next field succeeds.
FieldInit ==
    /\ rec.pc = "fields"
    /\ rec.k <= rec.n
    /\ rec.inits[rec.k].out = "ok"
    /\ rec' = init_struct_field(rec)
    /\ RecFrame

\* The initializer of the next field returns an error or panics.
FieldFail ==
    /\ rec.pc = "fields"
    /\ rec.k <= rec.n
    /\ rec.inits[rec.k].out # "ok"
    /\ rec' = init_struct_field(rec)
    /\ RecFrame

\* All the fields are done.
StructFinish ==
    /\ rec.pc = "fields"
    /\ rec.k > rec.n
    /\ rec' = init_struct_finish(rec)
    /\ RecFrame

RecNext ==
    \/ FieldInit
    \/ FieldFail
    \/ StructFinish

SpecRec == RecInit /\ [][RecNext]_vars

\* The fields 1..k in the listed order, each initialized.
RanUpTo(k) == [f \in 1..k |-> Ran(f)]

\* The fields k, k-1, .., 1, each destructed.
RolledBackFrom(k) == [j \in 1..k |-> Destructed(k + 1 - j)]

\* The first field whose initializer does not succeed, rec.n + 1 if all do.
FirstFailing ==
    IF \A f \in 1..rec.n : rec.inits[f].out = "ok"
    THEN rec.n + 1
    ELSE CHOOSE f \in 1..rec.n :
            /\ rec.inits[f].out # "ok"
            /\ \A g \in 1..(f - 1) : rec.inits[g].out = "ok"

\* C23: the initializers run in the listed order; no field is ever destructed
\* twice; the completed handle exists only once every field has succeeded,
\* and then nothing was destructed; when the k-th initializer fails, exactly
\* the initializers 1..k have run, the fields k-1, .., 1 were then destructed
\* in that order, once each, and the error (converted) is returned.
C23_FieldByField ==
    /\ \A f \in 1..rec.n : rec.dtors[f] <= 1 /\ rec.dtors[f] <= rec.ctors[f]
    /\ rec.pc = "fields"
       => /\ rec.log = RanUpTo(rec.k - 1)
          /\ ~rec.complete
    /\ rec.complete
       => /\ rec.log = RanUpTo(rec.n)
          /\ rec.ret = RecRet("Ok", 0)
          /\ \A f \in 1..rec.n : rec.ctors[f] = 1 /\ rec.dtors[f] = 0
    /\ (rec.pc = "done" /\ FirstFailing <= rec.n)
       => LET k == FirstFailing
          IN  /\ ~rec.complete
              /\ rec.log = RanUpTo(k) \o RolledBackFrom(k - 1)
              /\ \A f \in 1..rec.n :
                    /\ rec.ctors[f] = IF f < k THEN 1 ELSE 0
                    /\ rec.dtors[f] = rec.ctors[f]
              /\ rec.ret = IF rec.inits[k].out = "err"
                           THEN RecRet("Err", rec.from[rec.inits[k].e])
                           ELSE RecRet("Panic", 0)

C23_Witness ==
    /\ rec.pc = "done"
    /\ rec.n = 3
    /\ rec.inits[3].out = "err"
    /\ rec.ret.kind = "Err"
    /\ rec.log = <<Ran(1), Ran(2), Ran(3), Destructed(2), Destructed(1)>>

----------------------------------------------------------------------------
\* SelfRef (src/self-ref/src/lib.rs): a pinned value holding a pointer to one
\* of its own two fields.

\* size_of::<i32>()
SizeOfI32 == 4

\* The i32 values a field takes here, far from the ends of the i32 range.
I32s == (0 - 1)..MaxVal

\* Offset of a field within SelfRef as the build lays the struct out: the
\* pointer `current` first, then the two i32 fields.
offset_of(field) ==
    CASE field = "current" -> 0
      [] field = "first" -> UsizeBytes
      [] field = "second" -> UsizeBytes + SizeOfI32

\* size_of::<SelfRef>()
SizeOfSelfRef == offset_of("second") + SizeOfI32

\* Where the block of a box may be, and the temporary of a value built
\* before it is moved into place.
BoxPlaces == {Base, Base + SizeOfSelfRef}

Temporary == Base + (MaxN + 4) * SizeOfSelfRef

\* project_pin!(Self, uninit, field): the handle of the field's sub-region,
\* at the field's offset within the region of uninit.
project_pin(uninit, field) == uninit + offset_of(field)

\* PinnedUninit::write: moves the value into the region of uninit, which
\* becomes the value's location.
PinnedUninit_write(uninit, value) == [value EXCEPT !.this = uninit]

\* The value built in a temporary, its pointer taken there, then moved
new_in_by_move(uninit, value) ==
    LET current == project_pin(Temporary, "first")
    IN  PinnedUninit_write(uninit, [this |-> Temporary, first |-> value,
                                    second |-> 0, current |-> current])

\* SelfRef::new_in
new_in(uninit, value) ==
    LET current == project_pin(uninit, "first")
    IN  PinnedUninit_write(uninit, [this |-> Null, first |-> value,
                                    second |-> 0, current |-> current])

\* emplace_pin(SizedLayoutProvider, init): allocates the block and runs the
\* initializer on it; the box is the block.
emplace_pin(block, value) == new_in(block, value)

\* SelfRef::new: the pinned box, seen as the run of its one value.
SelfRef_new(block, value) == <<emplace_pin(block, value)>>

\* SelfRef::many: emplace_pin(SliceLayoutProvider(count), ..) allocates one
\* block for count values and PinSliceWriter::for_each runs the closure on
\* each slot in order; the closure adds 1 to value before each new_in.
SelfRef_many(block, value, count) ==
    [i \in 1..count |-> new_in(block + (i - 1) * SizeOfSelfRef, value + i)]

\* *ptr for a *mut i32: the field at that address; reading an address that
\* is no i32 field of a live value is undefined, any i32 may come out.
deref(vals, ptr) ==
    LET at == {<<j, f>> \in (1..Len(vals)) \X {"first", "second"} :
                  ptr = vals[j].this + offset_of(f)}
    IN  IF at = {}
        THEN I32s
        ELSE {IF jf[2] = "first" THEN vals[jf[1]].first
              ELSE vals[jf[1]].second : jf \in at}

\* SelfRef::get: unsafe { *self.current }
get(vals, j) == deref(vals, vals[j].current)

\* SelfRef::set_first: *this.current = &mut *this.first
set_first(this) == [this EXCEPT !.current = this.this + offset_of("first")]

\* SelfRef::set_second: *this.current = &mut *this.second
set_second(this) == [this EXCEPT !.current = this.this + offset_of("second")]

SelfRefInit ==
    /\ WriterIdle
    /\ copy = Idle /\ own = Idle /\ zero = Idle /\ emplace = Idle
    /\ siter = Idle /\ rec = Idle /\ vec = Idle /\ tail = Idle
    /\ \E v \in I32s, b \in BoxPlaces :
         selfref = [pc |-> "new", value |-> v, block |-> b, made |-> "none",
                    vals |-> <<>>, selected |-> <<>>,
                    ix |-> 0, got |-> 0, last |-> "none", calls |-> 0]

SelfRefFrame ==
    UNCHANGED <<wvars, copy, own, zero, emplace, siter, rec, vec, tail>>

\* let mut this = SelfRef::new(v);
SelfRefNew ==
    /\ selfref.pc = "new"
    /\ selfref' = [selfref EXCEPT
                     !.pc = "pinned", !.made = "new",
                     !.vals = SelfRef_new(selfref.block, selfref.value),
                     !.selected = <<"first">>,
                     !.last = "new"]
    /\ SelfRefFrame

\* let mut these = SelfRef::many(v, count);
SelfRefMany ==
    /\ selfref.pc = "new"
    /\ \E count \in 0..MaxN :
         selfref' = [selfref EXCEPT
                       !.pc = "pinned", !.made = "many",
                       !.vals = SelfRef_many(selfref.block, selfref.value,
                                             count),
                       !.selected = [i \in 1..count |-> "first"],
                       !.last = "many"]
    /\ SelfRefFrame

\* this.as_ref().get(), on one of the pinned values
SelfRefGet ==
    /\ selfref.pc = "pinned"
    /\ selfref.calls < MaxCalls
    /\ \E j \in 1..Len(selfref.vals) :
         \E r \in get(selfref.vals, j) :
            selfref' = [selfref EXCEPT !.got = r, !.ix = j, !.last = "get",
                                       !.calls = @ + 1]
    /\ SelfRefFrame

\* this.as_mut().set_first()
SelfRefSetFirst ==
    /\ selfref.pc = "pinned"
    /\ selfref.calls < MaxCalls
    /\ \E j \in 1..Len(selfref.vals) :
         selfref' = [selfref EXCEPT !.vals[j] = set_first(@),
                                    !.selected[j] = "first", !.ix = j,
                                    !.last = "set_first", !.calls = @ + 1]
    /\ SelfRefFrame

\* this.as_mut().set_second()
SelfRefSetSecond ==
    /\ selfref.pc = "pinned"
    /\ selfref.calls < MaxCalls
    /\ \E j \in 1..Len(selfref.vals) :
         selfref' = [selfref EXCEPT !.vals[j] = set_second(@),
                                    !.selected[j] = "second", !.ix = j,
                                    !.last = "set_second", !.calls = @ + 1]
    /\ SelfRefFrame

SelfRefNext ==
    \/ SelfRefNew
    \/ SelfRefMany
    \/ SelfRefGet
    \/ SelfRefSetFirst
    \/ SelfRefSetSecond

SpecSelfRef == SelfRefInit /\ [][SelfRefNext]_vars

\* The value the j-th SelfRef was constructed with: v for SelfRef::new(v),
\* v + j for the j-th value of SelfRef::many(v, count).
ConstructedWith(j) ==
    IF selfref.made = "new" THEN selfref.value ELSE selfref.value + j

\* C24: every pinned value lives in its slot of the block, its `first` is
\* the value it was constructed with and its `second` is 0, its stored
\* pointer is the address, inside that slot, of the field selected by the
\* most recent set_first / set_second on it (`first` if none), and get()
\* returns the content of that field.
C24_SelfPointerValid ==
    selfref.pc = "pinned" =>
        /\ \A j \in 1..Len(selfref.vals) :
             LET this == selfref.vals[j]
                 slot == selfref.block + (j - 1) * SizeOfSelfRef
             IN  /\ this.this = slot
                 /\ this.first = ConstructedWith(j)
                 /\ this.second = 0
                 /\ this.current = slot + offset_of(selfref.selected[j])
                 /\ this.current >= slot
                 /\ this.current + SizeOfI32 <= slot + SizeOfSelfRef
        /\ selfref.last = "get"
           => selfref.got = IF selfref.selected[selfref.ix] = "first"
                            THEN ConstructedWith(selfref.ix) ELSE 0

C24_Witness ==
    /\ selfref.pc = "pinned"
    /\ selfref.made = "new"
    /\ selfref.value = 2
    /\ selfref.selected = <<"first">>
    /\ selfref.last = "get"
    /\ selfref.got = 2
    /\ selfref.calls = 5

----------------------------------------------------------------------------
\* VecExt for Vec<T> (src/src/vec.rs): initialize elements directly in the
\* spare capacity of a vector.

VecRet(kind, e) == [kind |-> kind, e |-> e]

Max(a, b) == IF a >= b THEN a ELSE b

\* size_of::<T>() for the element types of the vector: one byte, a few
\* bytes, more than 1024 bytes.
ElemSizes == {1, 2, 2048}

\* The least capacity a growing buffer takes: 8 for one-byte elements, 4 for
\* elements of at most 1024 bytes, 1 above.
min_non_zero_cap(elem_size) ==
    IF elem_size = 1 THEN 8 ELSE IF elem_size <= 1024 THEN 4 ELSE 1

\* Vec::reserve(additional): does nothing if the spare capacity suffices,
\* otherwise grows the buffer amortized, to the largest of the double of the
\* old capacity, len + additional and the least capacity for the element
\* size.  The elements keep their values.
reserve(v, additional) ==
    IF v.cap - v.len >= additional
    THEN v
    ELSE [v EXCEPT !.cap = Max(Max(2 * v.cap, v.len + additional),
                               min_non_zero_cap(v.elem_size))]

\* Iterator::size_hint().0 of the iterator over the remaining items: the
\* number of items left, or 0 for an iterator that reports no lower bound.
size_hint(items, hint) == IF hint = "exact" THEN Len(items) ELSE 0

\* The slot written, then the length set, whatever the initializer returns
try_emplace_unchecked_set_len_first(v, initializer) ==
    LET call == [v EXCEPT !.unchecked = Append(@, [len |-> v.len,
                                                    cap |-> v.cap])]
        grown == [call EXCEPT !.len = @ + 1,
                              !.elems = Append(@, initializer.val)]
    IN  CASE initializer.out = "ok" ->
               {[vec |-> grown, ret |-> VecRet("Ok", 0)]}
          [] initializer.out = "err" ->
               {[vec |-> grown, ret |-> VecRet("Err", initializer.e)]}
          [] initializer.out = "panic" ->
               {[vec |-> grown, ret |-> VecRet("Panic", 0)]}

\* VecExt::try_emplace_unchecked.  With len == capacity the slot at ptr+len
\* is outside the buffer: debug_assert_ne! panics in a build with debug
\* assertions, and otherwise the write is undefined behaviour.
try_emplace_unchecked(v, initializer) ==
    LET call == [v EXCEPT !.unchecked = Append(@, [len |-> v.len,
                                                    cap |-> v.cap])]
        run(w) ==
            CASE initializer.out = "ok" ->
                   [vec |-> [w EXCEPT !.len = @ + 1,
                                      !.elems = Append(@, initializer.val)],
                    ret |-> VecRet("Ok", 0)]
              [] initializer.out = "err" ->
                   [vec |-> w, ret |-> VecRet("Err", initializer.e)]
              [] initializer.out = "panic" ->
                   [vec |-> w, ret |-> VecRet("Panic", 0)]
    IN  IF v.len = v.cap
        THEN {[vec |-> call, ret |-> VecRet("Panic", 0)],
              run([call EXCEPT !.ub = TRUE])}
        ELSE {run(call)}

\* Vec::try_emplace
Vec_try_emplace(v, initializer) ==
    try_emplace_unchecked(IF v.len = v.cap THEN reserve(v, 1) ELSE v,
                          initializer)

\* One turn of the loop of Vec::extend_emplate, item being what
\* iterator.next() returned and items what the iterator still holds.
extend_emplate_item(v, item, items, hint) ==
    try_emplace_unchecked(IF v.len = v.cap
                          THEN reserve(v, size_hint(items, hint))
                          ELSE v,
                          item)

\* A recipe for a run of n elements: it writes vals, returns Err(e) having
\* rolled back what it wrote, or panics likewise.
SliceArgsSet(n) ==
    {[out |-> "ok", len |-> n, vals |-> w, e |-> 0] : w \in [1..n -> ValsT]}
    \cup {[out |-> "err", len |-> n, vals |-> <<>>, e |-> x] : x \in Errs}
    \cup {[out |-> "panic", len |-> n, vals |-> <<>>, e |-> 0]}

\* Vec::try_extend_from_slice_in_place: reserve L::length(..) slots,
\* initialize that much of the spare capacity, then set_len(len + length).
try_extend_from_slice_in_place(v, slice_initializer) ==
    LET length == slice_initializer.len
        w == reserve(v, length)
    IN  CASE slice_initializer.out = "ok" ->
               [vec |-> [w EXCEPT !.len = @ + length,
                                  !.elems = @ \o slice_initializer.vals],
                ret |-> VecRet("Ok", 0)]
          [] slice_initializer.out = "err" ->
               [vec |-> w, ret |-> VecRet("Err", slice_initializer.e)]
          [] slice_initializer.out = "panic" ->
               [vec |-> w, ret |-> VecRet("Panic", 0)]

NoSnapshot == [len |-> 0, elems |-> <<>>]

VecInit ==
    /\ WriterIdle
    /\ copy = Idle /\ own = Idle /\ zero = Idle /\ emplace = Idle
    /\ siter = Idle /\ rec = Idle /\ selfref = Idle /\ tail = Idle
    /\ \E c \in 0..MaxN, sz \in ElemSizes :
         vec = [pc |-> "idle",
                v |-> [len |-> 0, cap |-> c, elems |-> <<>>, elem_size |-> sz,
                       unchecked |-> <<>>, ub |-> FALSE],
                items |-> <<>>, hint |-> "exact",
                last |-> "none", arg |-> NoArgs, before |-> NoSnapshot,
                ret |-> VecRet("none", 0)]

VecFrame ==
    UNCHANGED <<wvars, copy, own, zero, emplace, siter, rec, selfref, tail>>

\* A call starts from a vector in a defined state, its log of unchecked
\* calls empty.
VecAtCall == [vec.v EXCEPT !.unchecked = <<>>]

Snapshot == [len |-> vec.v.len, elems |-> vec.v.elems]

\* vec.try_emplace(initializer)
VecTryEmplace ==
    /\ vec.pc = "idle"
    /\ ~vec.v.ub
    /\ vec.v.len < MaxN
    /\ \E i \in ArgsSet :
         \E r \in Vec_try_emplace(VecAtCall, i) :
            vec' = [vec EXCEPT !.v = r.vec, !.ret = r.ret,
                               !.last = "try_emplace", !.arg = i,
                               !.before = Snapshot]
    /\ VecFrame

\* vec.try_extend_from_slice_in_place(slice_initializer)
VecExtendFromSlice ==
    /\ vec.pc = "idle"
    /\ ~vec.v.ub
    /\ \E n \in 0..(MaxN - vec.v.len) :
         \E i \in SliceArgsSet(n) :
            LET r == try_extend_from_slice_in_place(VecAtCall, i)
            IN  vec' = [vec EXCEPT !.v = r.vec, !.ret = r.ret,
                                   !.last = "try_extend_from_slice_in_place",
                                   !.arg = [out |-> i.out, val |-> 0,
                                            e |-> i.e],
                                   !.before = Snapshot]
    /\ VecFrame

\* vec.extend_emplate(iter): let mut iterator = iter.into_iter();
VecExtendCall ==
    /\ vec.pc = "idle"
    /\ ~vec.v.ub
    /\ \E it \in SeqsUpTo(ArgsSet, 2), h \in {"exact", "none"} :
         /\ vec.v.len + Len(it) <= MaxN
         /\ vec' = [vec EXCEPT !.pc = "extend", !.v = VecAtCall,
                               !.items = it, !.hint = h,
                               !.last = "extend_emplate", !.arg = NoArgs,
                               !.before = Snapshot,
                               !.ret = VecRet("none", 0)]
    /\ VecFrame

\* while let Some(item) = iterator.next() { reserve; try_emplace_unchecked? }
VecExtendStep ==
    /\ vec.pc = "extend"
    /\ vec.items # <<>>
    /\ \E r \in extend_emplate_item(vec.v, Head(vec.items), Tail(vec.items),
                                    vec.hint) :
         vec' = [vec EXCEPT
                   !.v = r.vec,
                   !.items = IF r.ret.kind = "Ok" THEN Tail(@) ELSE <<>>,
                   !.arg = Head(vec.items),
                   !.pc = IF r.ret.kind = "Ok" THEN "extend" ELSE "idle",
                   !.ret = IF r.ret.kind = "Ok" THEN @ ELSE r.ret]
    /\ VecFrame

\* The iterator is exhausted: Ok(())
VecExtendReturn ==
    /\ vec.pc = "extend"
    /\ vec.items = <<>>
    /\ vec' = [vec EXCEPT !.pc = "idle", !.ret = VecRet("Ok", 0)]
    /\ VecFrame

VecNext ==
    \/ VecTryEmplace
    \/ VecExtendFromSlice
    \/ VecExtendCall
    \/ VecExtendStep
    \/ VecExtendReturn

SpecVec == VecInit /\ [][VecNext]_vars

\* C25: after try_emplace, a success has made the vector one longer, the new
\* element last and the earlier ones as they were; a failure of the
\* initializer has returned its error and left length and elements as they
\* were; and the slot was within the capacity.
C25_TryEmplace ==
    vec.last = "try_emplace" =>
        /\ ~vec.v.ub
        /\ vec.v.len <= vec.v.cap
        /\ Len(vec.v.elems) = vec.v.len
        /\ vec.arg.out = "ok"
           => /\ vec.ret = VecRet("Ok", 0)
              /\ vec.v.len = vec.before.len + 1
              /\ vec.v.elems = Append(vec.before.elems, vec.arg.val)
        /\ vec.arg.out = "err"
           => /\ vec.ret = VecRet("Err", vec.arg.e)
              /\ vec.v.len = vec.before.len
              /\ vec.v.elems = vec.before.elems

C25_Witness ==
    /\ vec.last = "try_emplace"
    /\ vec.arg.out = "err"
    /\ vec.ret = VecRet("Err", 2)
    /\ vec.before.len = 2
    /\ vec.v.len = 2
    /\ vec.v.cap = 4
    /\ vec.v.elems = <<1, 2>>

\* C26: every call of try_emplace_unchecked made by extend_emplate finds the
\* vector's length strictly less than its capacity.
C26_ExtendHasCapacity ==
    vec.last = "extend_emplate" =>
        \A j \in 1..Len(vec.v.unchecked) :
            vec.v.unchecked[j].len < vec.v.unchecked[j].cap

----------------------------------------------------------------------------
\* SliceTail (src/src/slice_tail.rs): the #[repr(C)] record
\* { len: usize, header: H, tail: [T] }, its layout provider, its
\* initializer and its thin-pointer form.

\* Size and alignment of the types H and T range over.
TypeLayouts ==
    {[size |-> 0, align |-> 1], [size |-> 1, align |-> 1],
     [size |-> 3, align |-> 1], [size |-> 2, align |-> 2],
     [size |-> 4, align |-> 4], [size |-> 8, align |-> 8],
     [size |-> 16, align |-> 8]}

\* Layout::new::<usize>()
UsizeLayout == [size |-> UsizeBytes, align |-> UsizeBytes]

\* Layout::padding_needed_for: what brings size up to a multiple of align.
padding_needed_for(size, align) == (align - (size % align)) % align

\* Layout::array::<T>(n)
Layout_array(ty, n) == [size |-> ty.size * n, align |-> ty.align]

\* Layout::extend: the next layout placed after self at its alignment; the result has
\* no trailing padding.
Layout_extend(self, nxt) ==
    LET offset == self.size + padding_needed_for(self.size, nxt.align)
    IN  [layout |-> [size |-> offset + nxt.size,
                     align |-> Max(self.align, nxt.align)],
         offset |-> offset]

\* <SliceTailLayoutProvider as LayoutProvider>::layout
SliceTailLayoutProvider_layout(H, T, n) ==
    LET tl == Layout_array(T, n)
    IN  Layout_extend(Layout_extend(UsizeLayout, H).layout, tl).layout

\* The fields of SliceTail in declaration order, which #[repr(C)] makes
\* their order in memory.
SliceTailFields == <<"len", "header", "tail">>

\* Layout of the #[repr(C)] record whose fields have the layouts fs: each
\* field at the next offset that suits its alignment, the alignment the
\* largest of the fields', the size rounded up to the alignment.
RECURSIVE repr_c_end(_, _)
repr_c_end(fs, offset) ==
    IF fs = <<>>
    THEN offset
    ELSE repr_c_end(Tail(fs),
                    offset + padding_needed_for(offset, Head(fs).align)
                        + Head(fs).size)

RECURSIVE repr_c_align(_)
repr_c_align(fs) ==
    IF fs = <<>> THEN 1 ELSE Max(Head(fs).align, repr_c_align(Tail(fs)))

repr_c(fs) ==
    LET end == repr_c_end(fs, 0)
        al == repr_c_align(fs)
    IN  [size |-> end + padding_needed_for(end, al), align |-> al]

\* Layout::for_value of a SliceTail<H, T> with n tail elements.
SliceTail_layout_of_val(H, T, n) ==
    repr_c(<<UsizeLayout, H, Layout_array(T, n)>>)

\* <SliceTailLayoutProvider as LayoutProvider>::cast: the fat pointer with
\* the address of the block and the length LTs::cast gives, args.tail.len.
SliceTailLayoutProvider_cast(addr, n) == [addr |-> addr, len |-> n]

\* The expansion of init_struct! run to its end.
RECURSIVE init_struct(_)
init_struct(r) ==
    IF r.pc = "done" THEN r
    ELSE IF r.k > r.n THEN init_struct_finish(r)
    ELSE init_struct(init_struct_field(r))

\* The record the macro works on for the fields header, tail, len in the
\* order SliceTailArgs::try_init_into lists them.
SliceTailStruct(header, tl, length) ==
    [pc |-> "fields", n |-> 3,
     inits |-> <<header, tl, [out |-> "ok", val |-> length, e |-> 0]>>,
     from |-> [e \in Errs |-> e], k |-> 1, held |-> <<>>, log |-> <<>>,
     ctors |-> [f \in 1..3 |-> 0], dtors |-> [f \in 1..3 |-> 0],
     val |-> [f \in 1..3 |-> 0], complete |-> FALSE,
     ret |-> RecRet("none", 0)]

NoSliceTail == [len |-> 0, header |-> 0, tail |-> <<>>]

\* What try_init_into leaves: the memory of the value and the result, the
\* error of the header as HeaderError and that of the tail as TailError.
SliceTailOutcome(ptr, r) ==
    [mem |-> IF r.complete
             THEN [len |-> r.val[3], header |-> r.val[1],
                   tail |-> [i \in 1..ptr.len |-> r.val[2]]]
             ELSE NoSliceTail,
     complete |-> r.complete,
     ret |-> IF r.ret.kind = "Err"
             THEN RecRet(IF r.ctors[1] = 0 THEN "HeaderError"
                         ELSE "TailError", r.ret.e)
             ELSE r.ret]

\* The len field left as zero
SliceTailArgs_try_init_into_len_zero(ptr, args) ==
    SliceTailOutcome(ptr, init_struct(SliceTailStruct(args.header, args.tail,
                                                      0)))

\* <SliceTailArgs as Initializer<SliceTail<H, T>>>::try_init_into: header,
\* then tail, then len: ptr.write(tail.as_ref().len()), the length of the
\* tail's handle, which is the length of ptr.
SliceTailArgs_try_init_into(ptr, args) ==
    SliceTailOutcome(ptr, init_struct(SliceTailStruct(args.header, args.tail,
                                                      ptr.len)))

\* <SliceTail as Erasable>::erase: ptr.cast()
erase(ptr) == ptr.addr

\* <SliceTail as Erasable>::unerase: the usize at the address, which is the
\* first field, is the length of the fat pointer.
unerase(thin, mem) == [addr |-> thin, len |-> mem[SliceTailFields[1]]]

NoPtr == [addr |-> Null, len |-> 0]

TailInit ==
    /\ WriterIdle
    /\ copy = Idle /\ own = Idle /\ zero = Idle /\ emplace = Idle
    /\ siter = Idle /\ rec = Idle /\ selfref = Idle /\ vec = Idle
    /\ \E H \in TypeLayouts, T \in TypeLayouts, n \in 0..MaxN,
          h \in ArgsSet, t \in ArgsSet :
         tail = [pc |-> "layout", H |-> H, T |-> T,
                 args |-> [header |-> h, tail |-> t, len |-> n],
                 layout |-> NoLayout, ptr |-> NoPtr, mem |-> NoSliceTail,
                 complete |-> FALSE, ret |-> RecRet("none", 0),
                 thin |-> Null, unerased |-> NoPtr]

TailFrame ==
    UNCHANGED <<wvars, copy, own, zero, emplace, siter, rec, selfref, vec>>

\* let layout = L::layout(&args)
TailLayout ==
    /\ tail.pc = "layout"
    /\ tail' = [tail EXCEPT
                  !.pc = "cast",
                  !.layout = SliceTailLayoutProvider_layout(tail.H, tail.T,
                                                            tail.args.len)]
    /\ TailFrame

\* The block allocated with that layout and cast: L::cast(ptr, &args)
TailCast ==
    /\ tail.pc = "cast"
    /\ tail' = [tail EXCEPT
                  !.pc = "init",
                  !.ptr = SliceTailLayoutProvider_cast(Base, tail.args.len)]
    /\ TailFrame

\* uninit.try_init(args)
TailInitialize ==
    /\ tail.pc = "init"
    /\ LET r == SliceTailArgs_try_init_into(tail.ptr, tail.args)
       IN  tail' = [tail EXCEPT
                      !.pc = IF r.complete THEN "erase" ELSE "done",
                      !.mem = r.mem, !.complete = r.complete,
                      !.ret = r.ret]
    /\ TailFrame

\* Erasable::erase(ptr)
TailErase ==
    /\ tail.pc = "erase"
    /\ tail' = [tail EXCEPT !.pc = "unerase", !.thin = erase(tail.ptr)]
    /\ TailFrame

\* Erasable::unerase(thin)
TailUnerase ==
    /\ tail.pc = "unerase"
    /\ tail' = [tail EXCEPT !.pc = "done",
                            !.unerased = unerase(tail.thin, tail.mem)]
    /\ TailFrame

TailNext ==
    \/ TailLayout
    \/ TailCast
    \/ TailInitialize
    \/ TailErase
    \/ TailUnerase

SpecTail == TailInit /\ [][TailNext]_vars

\* C27: the layout computed for a header type, an element type and a tail
\* length has the alignment of the SliceTail value and the value's
\* in-memory size, trailing padding included.
C27_LayoutFitsValue ==
    tail.pc # "layout" =>
        LET value == SliceTail_layout_of_val(tail.H, tail.T, tail.args.len)
        IN  /\ tail.layout.align = value.align
            /\ tail.layout.size >= value.size
            /\ tail.layout.size = value.size

\* C28: once a SliceTail is initialized, its len field is the number of
\* elements of its tail, and once its pointer has been erased and unerased
\* the result is the same fat pointer, address and length.
C28_EraseRoundTrip ==
    /\ tail.complete
       => /\ tail.mem.len = tail.args.len
          /\ tail.mem.len = Len(tail.mem.tail)
    /\ (tail.pc = "done" /\ tail.complete)
       => /\ tail.unerased = tail.ptr
          /\ tail.unerased = [addr |-> Base, len |-> tail.args.len]

C28_Witness ==
    /\ tail.pc = "done"
    /\ tail.complete
    /\ tail.args.len = 3
    /\ tail.mem.len = 3
    /\ tail.unerased = [addr |-> Base, len |-> 3]

====
